---- MODULE Spec2Model ----
(***************************************************************************)
(* A model of the TARS evidence-to-governance pipeline:                    *)
(*   - SimpleDAO   (src/src/dao/contracts/SimpleDAO.sol)                   *)
(*   - TarsDAO     (src/src/dao/hardhat.config.ts, lines 34-174)           *)
(*   - the proposal publisher with its dedup ledger                        *)
(*                 (src/src/social-impact/actions/create-proposal.action.ts)*)
(* One chain hosts one governance contract: `system` says which one a      *)
(* behaviour is about.  Time is counted in days, ether and tokens in the   *)
(* unit in which the contract states its MINIMUM_STAKE.                    *)
(* A reverted transaction leaves the chain state as it was, so a call that *)
(* reverts is a stuttering step; for every contract function F the         *)
(* operator F_Revert gives the message of the first failing require, or    *)
(* "ok", and the action F is enabled exactly when it is "ok".              *)
(***************************************************************************)
EXTENDS Integers, FiniteSets, Sequences, TLC

VARIABLES
    system,         \* "SimpleDAO", "TarsDAO" or "Pipeline": what the behaviour runs
    now,            \* block.timestamp, in days
    eth,            \* ether balance of every account, the contract included
    \* ---- SimpleDAO storage
    members,        \* mapping(address => bool) members, as the set of true keys
    memberStakes,   \* mapping(address => uint256) memberStakes
    proposals,      \* mapping(bytes32 => Proposal), on the ids whose exists flag is set
    \* ---- TarsDAO storage
    verifiers,      \* holders of VERIFIER_ROLE
    agents,         \* holders of AGENT_ROLE
    stakedAmount,   \* mapping(address => uint256) stakedAmount
    balances,       \* ERC20 _balances
    causes,         \* mapping(bytes32 => Cause), on the ids whose exists flag is set
    transfers,      \* number of ERC20 transfers made (model bookkeeping)
    \* ---- the publisher (create-proposal.action.ts) and what it reads
    analyses,       \* how often each piece of evidence went through analyzePhoto
    pinned,         \* the analysis-* pins at the storage service, in pinning order
    ledgerFile,     \* processed-cids.json: whether it is there and whole, and its rows
    pc,             \* where each run of processNewAnalyses stands
    processedHashes,\* each run's snapshot of the processed CIDs (line 253)
    todo,           \* each run's newCIDs still to go; the head is the loop's cid
    loaded,         \* each run's `processed` array inside saveProcessedCID
    created,        \* each run's result of createProposal, until it is recorded
    results,        \* each run's results array
    \* ---- the proposal description, written by the publisher, read by Voting.tsx
    ipfsData,       \* the analysis document createProposal fetched, if any
    proposalDescription,  \* the description string it sent to the contract, as lines
    parsedData,     \* what parseProposalDescription made of it, if it ran
    \* ---- the media analyst (analyze-photo.action.ts) and the services it calls
    photoFiles,     \* the photos of test/photos, with what the services answer for each
    photoPc,        \* where the directory batch stands, and at which file
    photo,          \* the locals of the iteration: buffers, hash, AVS result, lookups
    photoResults,   \* the results array of the batch
    avsTasks,       \* the image hashes of the tasks created at the service manager
    ipfsPins,       \* what pinAnalysisWithImage pinned: the image and its analysis
    \* ---- the impact evaluator (impact.evaluator.ts)
    categories,     \* the five category scores
    assessment,     \* the ImpactAssessment the handler returned, if it ran
    \* ---- one progressive re-encoding, with sizes the encoder is free to give
    resize,         \* which loop, where it stands, its quality and the buffer's size
    \* ---- the agent's watcher (agent.ts)
    startPc,        \* where startDataCollection stands
    watchInterval,  \* whether the interval timer is installed
    scans,          \* where each call of processPhotosInDirectory stands
    cleanedUp       \* whether the caller's cleanup() has returned

chainVars  == <<now, eth>>
simpleVars == <<members, memberStakes, proposals>>
tarsVars   == <<verifiers, agents, stakedAmount, balances, causes, transfers>>
pipeVars   == <<analyses, pinned, ledgerFile, pc, processedHashes, todo, loaded,
                created, results>>
docVars    == <<ipfsData, proposalDescription, parsedData>>
photoVars  == <<photoFiles, photoPc, photo, photoResults, avsTasks, ipfsPins>>
impactVars == <<categories, assessment>>
resizeVars == <<resize>>
agentVars  == <<startPc, watchInterval, scans, cleanedUp>>
vars       == <<system, chainVars, simpleVars, tarsVars, pipeVars, docVars, photoVars,
                impactVars, resizeVars, agentVars>>

(***************************************************************************)
(* Bounds of the model.                                                    *)
(***************************************************************************)
MaxOvertime  == 1   \* days the clock runs on past a deadline
MaxTransfers == 1   \* ERC20 transfers in one behaviour
MaxAnalyses  == 2   \* times one piece of evidence is put through the analysis

(***************************************************************************)
(* Accounts.                                                               *)
(***************************************************************************)
DAO          == "dao"                 \* address(this)
Preset       == {"p1"}                \* members the SimpleDAO constructor configures
Users        == {"u1", "u2"}          \* externally owned accounts that may join
Outsider     == "ben"                 \* an externally owned account named as beneficiary
Sink         == "sink"                \* a contract account that refuses ether
Accounts     == Preset \cup Users \cup {Outsider, Sink, DAO}
AcceptsEther(a) == a # Sink

Sum(f, S) ==
    LET RECURSIVE Go(_)
        Go(T) == IF T = {} THEN 0
                 ELSE LET x == CHOOSE y \in T : TRUE IN f[x] + Go(T \ {x})
    IN Go(S)

(***************************************************************************)
(*                              SimpleDAO                                  *)
(***************************************************************************)
VOTING_PERIOD == 7      \* 7 days
QUORUM        == 2
MINIMUM_STAKE == 1      \* 0.01 ether, the unit of ether under SimpleDAO
Descriptions  == {"d1"}
SimpleCallers == Preset \cup Users     \* the senders of SimpleDAO transactions
SimpleAuthors == Preset \cup {"u1"}     \* the senders of createProposal transactions
SimpleStakes  == {MINIMUM_STAKE - 1, MINIMUM_STAKE, MINIMUM_STAKE + 1}
SimpleJoiners == Preset \cup Users \cup {Sink}  \* the senders of joinDAO and leaveDAO
SimpleEther   == [a \in Accounts |-> IF a \in Users THEN MINIMUM_STAKE + 1
                                      ELSE IF a = Sink THEN MINIMUM_STAKE
                                      ELSE 0]
SimpleCreateDays == {0, 1}             \* the days on which proposals are created

\* keccak256(abi.encodePacked(description, block.timestamp, msg.sender))
ProposalId(description, timestamp, sender) == <<description, timestamp, sender>>

\* the proposals that vote and executeProposal transactions are sent for
SimpleBallots ==
    {ProposalId(d, t, a) : d \in Descriptions, t \in SimpleCreateDays, a \in Preset}

exists(proposalId) == proposalId \in DOMAIN proposals

onlyMember(sender) == sender \in members

joinDAO_Revert(sender, value) ==
    IF sender \in members THEN "Already a member"
    ELSE IF value < MINIMUM_STAKE THEN "Insufficient stake"
    ELSE "ok"

joinDAO(sender, value) ==
    /\ eth[sender] >= value
    /\ joinDAO_Revert(sender, value) = "ok"
    /\ members' = members \cup {sender}
    /\ memberStakes' = [memberStakes EXCEPT ![sender] = value]
    /\ eth' = [eth EXCEPT ![sender] = @ - value, ![DAO] = @ + value]
    /\ UNCHANGED <<now, proposals>>

\* "Implementation can be enhanced based on specific requirements"
hasActiveProposals == FALSE

leaveDAO_Revert(sender) ==
    IF ~onlyMember(sender) THEN "Not a member"
    ELSE IF ~(memberStakes[sender] > 0) THEN "No stake to withdraw"
    ELSE IF hasActiveProposals THEN "Cannot leave while proposals are active"
    ELSE IF ~AcceptsEther(sender) THEN "Transfer failed"
    ELSE "ok"

\* leaveDAO refunding MINIMUM_STAKE in place of the recorded stake
leaveDAO_MinimumRefund(sender) ==
    /\ leaveDAO_Revert(sender) = "ok"
    /\ members' = members \ {sender}
    /\ memberStakes' = [memberStakes EXCEPT ![sender] = 0]
    /\ eth' = [eth EXCEPT ![DAO] = @ - MINIMUM_STAKE, ![sender] = @ + MINIMUM_STAKE]
    /\ UNCHANGED <<now, proposals>>

\* leaveDAO without memberStakes[msg.sender] = 0
leaveDAO_KeepsStake(sender) ==
    /\ leaveDAO_Revert(sender) = "ok"
    /\ members' = members \ {sender}
    /\ eth' = [eth EXCEPT ![DAO] = @ - memberStakes[sender],
                          ![sender] = @ + memberStakes[sender]]
    /\ UNCHANGED <<now, proposals, memberStakes>>

leaveDAO(sender) ==
    /\ leaveDAO_Revert(sender) = "ok"
    /\ LET stake == memberStakes[sender] IN
        /\ members' = members \ {sender}
        /\ memberStakes' = [memberStakes EXCEPT ![sender] = 0]
        /\ eth' = [eth EXCEPT ![DAO] = @ - stake, ![sender] = @ + stake]
    /\ UNCHANGED <<now, proposals>>

\* createProposal without the onlyMember modifier
createProposal_Revert_Anyone(sender, description) ==
    IF exists(ProposalId(description, now, sender)) THEN "Proposal already exists"
    ELSE "ok"

createProposal_Revert(sender, description) ==
    IF ~onlyMember(sender) THEN "Not a member"
    ELSE IF exists(ProposalId(description, now, sender)) THEN "Proposal already exists"
    ELSE "ok"

createProposal(sender, description) ==
    /\ createProposal_Revert(sender, description) = "ok"
    /\ proposals' = [id \in DOMAIN proposals \cup {ProposalId(description, now, sender)} |->
            IF id \in DOMAIN proposals THEN proposals[id]
            ELSE [description  |-> description,
                  forVotes     |-> 0,
                  againstVotes |-> 0,
                  deadline     |-> now + VOTING_PERIOD,
                  executed     |-> FALSE,
                  hasVoted     |-> {}]]
    /\ UNCHANGED <<now, eth, members, memberStakes>>

\* vote without the "Already voted" require
vote_Revert_Again(sender, proposalId, support) ==
    IF ~onlyMember(sender) THEN "Not a member"
    ELSE IF ~exists(proposalId) THEN "Proposal doesn't exist"
    ELSE IF ~(now <= proposals[proposalId].deadline) THEN "Voting period ended"
    ELSE "ok"

\* vote without the deadline require
vote_Revert_Late(sender, proposalId, support) ==
    IF ~onlyMember(sender) THEN "Not a member"
    ELSE IF ~exists(proposalId) THEN "Proposal doesn't exist"
    ELSE IF sender \in proposals[proposalId].hasVoted THEN "Already voted"
    ELSE "ok"

vote_Revert(sender, proposalId, support) ==
    IF ~onlyMember(sender) THEN "Not a member"
    ELSE IF ~exists(proposalId) THEN "Proposal doesn't exist"
    ELSE IF ~(now <= proposals[proposalId].deadline) THEN "Voting period ended"
    ELSE IF sender \in proposals[proposalId].hasVoted THEN "Already voted"
    ELSE "ok"

vote(sender, proposalId, support) ==
    /\ vote_Revert(sender, proposalId, support) = "ok"
    /\ proposals' = [proposals EXCEPT
            ![proposalId].hasVoted     = @ \cup {sender},
            ![proposalId].forVotes     = IF support THEN @ + 1 ELSE @,
            ![proposalId].againstVotes = IF support THEN @ ELSE @ + 1]
    /\ UNCHANGED <<now, eth, members, memberStakes>>

\* executeProposal without the deadline require
executeProposal_Revert_Early(sender, proposalId) ==
    IF ~onlyMember(sender) THEN "Not a member"
    ELSE IF ~exists(proposalId) THEN "Proposal doesn't exist"
    ELSE IF proposals[proposalId].executed THEN "Already executed"
    ELSE IF ~(proposals[proposalId].forVotes + proposals[proposalId].againstVotes >= QUORUM)
        THEN "Quorum not reached"
    ELSE IF ~(proposals[proposalId].forVotes > proposals[proposalId].againstVotes)
        THEN "Proposal rejected"
    ELSE "ok"

executeProposal_Revert(sender, proposalId) ==
    IF ~onlyMember(sender) THEN "Not a member"
    ELSE IF ~exists(proposalId) THEN "Proposal doesn't exist"
    ELSE IF proposals[proposalId].executed THEN "Already executed"
    ELSE IF ~(now > proposals[proposalId].deadline) THEN "Voting still in progress"
    ELSE IF ~(proposals[proposalId].forVotes + proposals[proposalId].againstVotes >= QUORUM)
        THEN "Quorum not reached"
    ELSE IF ~(proposals[proposalId].forVotes > proposals[proposalId].againstVotes)
        THEN "Proposal rejected"
    ELSE "ok"

executeProposal(sender, proposalId) ==
    /\ executeProposal_Revert(sender, proposalId) = "ok"
    /\ proposals' = [proposals EXCEPT ![proposalId].executed = TRUE]
    /\ UNCHANGED <<now, eth, members, memberStakes>>

\* SimpleDAO.getProposal: description, forVotes, againstVotes, deadline, executed,
\* exists
getProposal(proposalId) ==
    IF exists(proposalId)
    THEN <<proposals[proposalId].description, proposals[proposalId].forVotes,
           proposals[proposalId].againstVotes, proposals[proposalId].deadline,
           proposals[proposalId].executed, TRUE>>
    ELSE <<"", 0, 0, 0, FALSE, FALSE>>

\* Voting.tsx, loadProposals: the status shown for a proposal that exists
status(proposalId) ==
    LET forVotes     == getProposal(proposalId)[2]
        againstVotes == getProposal(proposalId)[3]
        deadline     == getProposal(proposalId)[4]
        executed     == getProposal(proposalId)[5]
    IN  IF executed THEN "passed"
        ELSE IF now > deadline
            THEN IF forVotes > againstVotes THEN "passed" ELSE "rejected"
        ELSE "active"

(***************************************************************************)
(*                               TarsDAO                                   *)
(***************************************************************************)
TarsDAO_MINIMUM_STAKE  == 100     \* 100 * 10**18, the unit being 10**18
VERIFICATION_THRESHOLD == 3
TarsDAO_VOTING_PERIOD  == 3       \* 3 days
INITIAL_SUPPLY         == 1000000 \* minted to the contract by the constructor
ImageHashes      == {"h1"}
TarsCallers      == Preset \cup Users \cup {Outsider}
VerifierJoiners  == Preset \cup Users           \* the senders of joinAsVerifier
AgentJoiners     == {"u1", Outsider}            \* the senders of joinAsAgent
TarsVoters       == Users \cup {Outsider}       \* the senders of vote
Donors           == {Outsider}                  \* the senders of plain ether
CauseRequests    == {<<100, Outsider>>, <<400, Outsider>>, <<100, Sink>>}
TarsStakes       == {TarsDAO_MINIMUM_STAKE - 1, TarsDAO_MINIMUM_STAKE,
                     TarsDAO_MINIMUM_STAKE + 1}
TarsEther        == [a \in Accounts |->
                        IF a = "u1" THEN TarsDAO_MINIMUM_STAKE + 1
                        ELSE IF a \in Preset \cup Users \cup {Outsider}
                            THEN TarsDAO_MINIMUM_STAKE
                        ELSE 0]
Donation         == TarsDAO_MINIMUM_STAKE          \* ether sent to receive() in one call
TarsCreateDays   == {0, 1}                      \* the days on which causes are created

\* keccak256(abi.encodePacked(imageHash, block.timestamp))
CauseId(imageHash, timestamp) == <<imageHash, timestamp>>

\* the causes that verifyCause, vote and executeCause transactions are sent for
TarsBallots == {CauseId(h, 0) : h \in ImageHashes}

causeExists(causeId) == causeId \in DOMAIN causes

balanceOf(account) == balances[account]

hasRole(role, account) ==
    IF role = "VERIFIER_ROLE" THEN account \in verifiers
    ELSE IF role = "AGENT_ROLE" THEN account \in agents
    ELSE FALSE

\* ERC20._transfer
_transfer(from, to, value) ==
    balances' = [balances EXCEPT ![from] = @ - value, ![to] = @ + value]

\* joinAsVerifier without the stake require
joinAsVerifier_Revert_Free(sender, value) ==
    IF hasRole("VERIFIER_ROLE", sender) THEN "Already a verifier"
    ELSE IF balanceOf(DAO) < TarsDAO_MINIMUM_STAKE THEN "ERC20InsufficientBalance"
    ELSE "ok"

joinAsVerifier_Revert(sender, value) ==
    IF hasRole("VERIFIER_ROLE", sender) THEN "Already a verifier"
    ELSE IF ~(value >= TarsDAO_MINIMUM_STAKE) THEN "Insufficient stake"
    ELSE IF balanceOf(DAO) < TarsDAO_MINIMUM_STAKE THEN "ERC20InsufficientBalance"
    ELSE "ok"

joinAsVerifier(sender, value) ==
    /\ eth[sender] >= value
    /\ joinAsVerifier_Revert(sender, value) = "ok"
    /\ verifiers' = verifiers \cup {sender}
    /\ stakedAmount' = [stakedAmount EXCEPT ![sender] = value]
    /\ _transfer(DAO, sender, TarsDAO_MINIMUM_STAKE)
    /\ eth' = [eth EXCEPT ![sender] = @ - value, ![DAO] = @ + value]
    /\ UNCHANGED <<now, agents, causes, transfers>>

joinAsAgent_Revert(sender) ==
    IF hasRole("AGENT_ROLE", sender) THEN "Already an agent"
    ELSE IF balanceOf(DAO) < TarsDAO_MINIMUM_STAKE \div 2 THEN "ERC20InsufficientBalance"
    ELSE "ok"

joinAsAgent(sender) ==
    /\ joinAsAgent_Revert(sender) = "ok"
    /\ agents' = agents \cup {sender}
    /\ _transfer(DAO, sender, TarsDAO_MINIMUM_STAKE \div 2)
    /\ UNCHANGED <<now, eth, verifiers, stakedAmount, causes, transfers>>

\* createCause without the "Cause already exists" require
createCause_Revert_Again(sender, imageHash, description, requestedAmount, beneficiary) ==
    IF ~(hasRole("VERIFIER_ROLE", sender) \/ hasRole("AGENT_ROLE", sender))
        THEN "Not authorized"
    ELSE "ok"

createCause_Revert(sender, imageHash, description, requestedAmount, beneficiary) ==
    IF ~(hasRole("VERIFIER_ROLE", sender) \/ hasRole("AGENT_ROLE", sender))
        THEN "Not authorized"
    ELSE IF causeExists(CauseId(imageHash, now)) THEN "Cause already exists"
    ELSE "ok"

createCause(sender, imageHash, description, requestedAmount, beneficiary) ==
    /\ createCause_Revert(sender, imageHash, description, requestedAmount, beneficiary) = "ok"
    /\ causes' = [id \in DOMAIN causes \cup {CauseId(imageHash, now)} |->
            IF id \in DOMAIN causes THEN causes[id]
            ELSE [imageHash         |-> imageHash,
                  description       |-> description,
                  requestedAmount   |-> requestedAmount,
                  beneficiary       |-> beneficiary,
                  verificationCount |-> 0,
                  approvalCount     |-> 0,
                  disapprovalCount  |-> 0,
                  deadline          |-> now + TarsDAO_VOTING_PERIOD,
                  executed          |-> FALSE,
                  hasVerified       |-> {},
                  hasVoted          |-> {}]]
    /\ UNCHANGED <<now, eth, verifiers, agents, stakedAmount, balances, transfers>>

\* verifyCause without the "Already verified" require
verifyCause_Revert_Again(sender, causeId) ==
    IF ~hasRole("VERIFIER_ROLE", sender) THEN "Not a verifier"
    ELSE IF ~causeExists(causeId) THEN "Cause doesn't exist"
    ELSE IF ~(now < causes[causeId].deadline) THEN "Voting period ended"
    ELSE "ok"

\* verifyCause without the deadline require
verifyCause_Revert_Late(sender, causeId) ==
    IF ~hasRole("VERIFIER_ROLE", sender) THEN "Not a verifier"
    ELSE IF ~causeExists(causeId) THEN "Cause doesn't exist"
    ELSE IF sender \in causes[causeId].hasVerified THEN "Already verified"
    ELSE "ok"

verifyCause_Revert(sender, causeId) ==
    IF ~hasRole("VERIFIER_ROLE", sender) THEN "Not a verifier"
    ELSE IF ~causeExists(causeId) THEN "Cause doesn't exist"
    ELSE IF sender \in causes[causeId].hasVerified THEN "Already verified"
    ELSE IF ~(now < causes[causeId].deadline) THEN "Voting period ended"
    ELSE "ok"

verifyCause(sender, causeId) ==
    /\ verifyCause_Revert(sender, causeId) = "ok"
    /\ causes' = [causes EXCEPT
            ![causeId].hasVerified       = @ \cup {sender},
            ![causeId].verificationCount = @ + 1]
    /\ UNCHANGED <<now, eth, verifiers, agents, stakedAmount, balances, transfers>>

\* vote with block.timestamp <= deadline in place of < deadline
TarsDAO_vote_Revert_AtDeadline(sender, causeId, support) ==
    IF ~(hasRole("VERIFIER_ROLE", sender) \/ hasRole("AGENT_ROLE", sender))
        THEN "Not authorized"
    ELSE IF ~causeExists(causeId) THEN "Cause doesn't exist"
    ELSE IF sender \in causes[causeId].hasVoted THEN "Already voted"
    ELSE IF ~(now <= causes[causeId].deadline) THEN "Voting period ended"
    ELSE IF ~(causes[causeId].verificationCount >= VERIFICATION_THRESHOLD)
        THEN "Not enough verifications"
    ELSE "ok"

TarsDAO_vote_Revert(sender, causeId, support) ==
    IF ~(hasRole("VERIFIER_ROLE", sender) \/ hasRole("AGENT_ROLE", sender))
        THEN "Not authorized"
    ELSE IF ~causeExists(causeId) THEN "Cause doesn't exist"
    ELSE IF sender \in causes[causeId].hasVoted THEN "Already voted"
    ELSE IF ~(now < causes[causeId].deadline) THEN "Voting period ended"
    ELSE IF ~(causes[causeId].verificationCount >= VERIFICATION_THRESHOLD)
        THEN "Not enough verifications"
    ELSE "ok"

\* vote counting 1 for every voter in place of balanceOf(msg.sender)
TarsDAO_vote_Flat(sender, causeId, support) ==
    /\ TarsDAO_vote_Revert(sender, causeId, support) = "ok"
    /\ causes' = [causes EXCEPT
            ![causeId].hasVoted         = @ \cup {sender},
            ![causeId].approvalCount    = IF support THEN @ + 1 ELSE @,
            ![causeId].disapprovalCount = IF support THEN @ ELSE @ + 1]
    /\ UNCHANGED <<now, eth, verifiers, agents, stakedAmount, balances, transfers>>

TarsDAO_vote(sender, causeId, support) ==
    /\ TarsDAO_vote_Revert(sender, causeId, support) = "ok"
    /\ causes' = [causes EXCEPT
            ![causeId].hasVoted         = @ \cup {sender},
            ![causeId].approvalCount    = IF support THEN @ + balanceOf(sender) ELSE @,
            ![causeId].disapprovalCount = IF support THEN @ ELSE @ + balanceOf(sender)]
    /\ UNCHANGED <<now, eth, verifiers, agents, stakedAmount, balances, transfers>>

\* executeCause without the deadline require
executeCause_Revert_Early(causeId) ==
    IF ~causeExists(causeId) THEN "Cause doesn't exist"
    ELSE IF causes[causeId].executed THEN "Already executed"
    ELSE IF ~(causes[causeId].verificationCount >= VERIFICATION_THRESHOLD)
        THEN "Not enough verifications"
    ELSE IF ~(causes[causeId].approvalCount > causes[causeId].disapprovalCount)
        THEN "Vote not passed"
    ELSE IF ~(eth[DAO] >= causes[causeId].requestedAmount) THEN "Insufficient DAO balance"
    ELSE IF ~AcceptsEther(causes[causeId].beneficiary) THEN "Transfer failed"
    ELSE "ok"

\* executeCause without the balance require: the call of the beneficiary fails
\* for want of ether
executeCause_Revert_Unfunded(causeId) ==
    IF ~causeExists(causeId) THEN "Cause doesn't exist"
    ELSE IF causes[causeId].executed THEN "Already executed"
    ELSE IF ~(now >= causes[causeId].deadline) THEN "Voting still ongoing"
    ELSE IF ~(causes[causeId].verificationCount >= VERIFICATION_THRESHOLD)
        THEN "Not enough verifications"
    ELSE IF ~(causes[causeId].approvalCount > causes[causeId].disapprovalCount)
        THEN "Vote not passed"
    ELSE IF ~(eth[DAO] >= causes[causeId].requestedAmount) THEN "Transfer failed"
    ELSE IF ~AcceptsEther(causes[causeId].beneficiary) THEN "Transfer failed"
    ELSE "ok"

executeCause_Revert(causeId) ==
    IF ~causeExists(causeId) THEN "Cause doesn't exist"
    ELSE IF causes[causeId].executed THEN "Already executed"
    ELSE IF ~(now >= causes[causeId].deadline) THEN "Voting still ongoing"
    ELSE IF ~(causes[causeId].verificationCount >= VERIFICATION_THRESHOLD)
        THEN "Not enough verifications"
    ELSE IF ~(causes[causeId].approvalCount > causes[causeId].disapprovalCount)
        THEN "Vote not passed"
    ELSE IF ~(eth[DAO] >= causes[causeId].requestedAmount) THEN "Insufficient DAO balance"
    ELSE IF ~AcceptsEther(causes[causeId].beneficiary) THEN "Transfer failed"
    ELSE "ok"

\* executeCause without cause.executed = true
executeCause_Unmarked(sender, causeId) ==
    /\ executeCause_Revert(causeId) = "ok"
    /\ eth' = [eth EXCEPT ![DAO] = @ - causes[causeId].requestedAmount,
                          ![causes[causeId].beneficiary] = @ + causes[causeId].requestedAmount]
    /\ UNCHANGED <<now, verifiers, agents, stakedAmount, balances, causes, transfers>>

executeCause(sender, causeId) ==
    /\ executeCause_Revert(causeId) = "ok"
    /\ causes' = [causes EXCEPT ![causeId].executed = TRUE]
    /\ eth' = [eth EXCEPT ![DAO] = @ - causes[causeId].requestedAmount,
                          ![causes[causeId].beneficiary] = @ + causes[causeId].requestedAmount]
    /\ UNCHANGED <<now, verifiers, agents, stakedAmount, balances, transfers>>

\* receive() external payable {}
receive(sender, value) ==
    /\ eth[sender] >= value
    /\ eth' = [eth EXCEPT ![sender] = @ - value, ![DAO] = @ + value]
    /\ UNCHANGED <<now, verifiers, agents, stakedAmount, balances, causes, transfers>>

\* ERC20.transfer
transfer_Revert(sender, to, value) ==
    IF balanceOf(sender) < value THEN "ERC20InsufficientBalance" ELSE "ok"

transfer(sender, to, value) ==
    /\ transfer_Revert(sender, to, value) = "ok"
    /\ _transfer(sender, to, value)
    /\ UNCHANGED <<now, eth, verifiers, agents, stakedAmount, causes>>

(***************************************************************************)
(*             The publisher: processNewAnalyses and its ledger            *)
(***************************************************************************)
Evidence == {"E1"}              \* the photographs (byte-identical images are one)
Versions == {1, 2}              \* what else the analysis document holds: the
                                \* verification timestamp, the vision model's text
CIDs     == Evidence \X Versions \* content identifiers of analysis documents
Runs     == {"r1", "r2"}        \* the invocations of processNewAnalyses
Wallet   == "p1"                \* CREATE_PROPOSAL_PRIVATE_KEY's account, a member
PipelineDays == {0, 1}

EvidenceOf(cid) == cid[1]

\* null and undefined results are <<>>, a result r is <<r>>; a missing field is
\* "undefined"
Null      == <<>>
Undefined == "undefined"

\* the description text is a function of the document behind the CID and of the CID
DescriptionOf(cid) == cid

\* response.data of the gateway: the four fields validateIPFSData looks at.  The
\* coordinates carry typeof lat and typeof lng; an empty description is <<>>.
IPFSDocuments ==
    [timestamp   : {Undefined, "2024-05-01T10:00:00Z"},
     coordinates : {Null, <<[lat |-> "number", lng |-> "number"]>>,
                          <<[lat |-> "string", lng |-> "number"]>>},
     description : {<<>>, <<"Flooded", "street">>},
     score       : {Null, <<0>>, <<50>>}]

\* validateIPFSData, lines 404-441: the errors it collects
validateIPFSData(data) ==
    {e \in {"timestamp"} : data.timestamp = Undefined}
    \cup {e \in {"coordinates"} : data.coordinates = Null}
    \cup {e \in {"lat and lng"} :
            /\ data.coordinates # Null
            /\ \/ data.coordinates[1].lat # "number"
               \/ data.coordinates[1].lng # "number"}
    \cup {e \in {"description"} : data.description = <<>>}
    \cup {e \in {"score"} : data.score = Null \/ data.score = <<0>>}

Contains(seq, x) == \E i \in 1..Len(seq) : seq[i] = x

RECURSIVE Filter(_, _)
Filter(seq, S) ==
    IF seq = <<>> THEN <<>>
    ELSE IF Head(seq) \in S THEN Filter(Tail(seq), S)
    ELSE <<Head(seq)>> \o Filter(Tail(seq), S)

RowCids(rows) == {rows[i].cid : i \in 1..Len(rows)}

\* readFile and JSON.parse succeed: the file is there and holds a whole document.
\* fs.writeFile truncates the file and then writes it, so a reader in between
\* finds an empty file, which JSON.parse rejects.
Missing       == [state |-> "missing", rows |-> <<>>]
Truncated     == [state |-> "invalid", rows |-> <<>>]
File(rows)    == [state |-> "whole", rows |-> rows]
Readable(file) == file.state = "whole"

\* everything but the publisher's own state
offPipeline == <<system, chainVars, simpleVars, tarsVars, docVars, photoVars, impactVars, resizeVars, agentVars>>

\* analyzePhoto up to pinAnalysisWithImage: the document gets a content identifier
analyzePhoto(e, v) ==
    /\ analyses[e] < MaxAnalyses
    /\ analyses' = [analyses EXCEPT ![e] = @ + 1]
    /\ pinned' = IF Contains(pinned, <<e, v>>) THEN pinned ELSE Append(pinned, <<e, v>>)
    /\ UNCHANGED <<ledgerFile, pc, processedHashes, todo, loaded, created, results>>
    /\ UNCHANGED offPipeline

\* the for loop's next iteration, or the return
Continue(r, outcome) ==
    /\ results' = [results EXCEPT ![r] = Append(@, outcome)]
    /\ todo' = [todo EXCEPT ![r] = Tail(@)]
    /\ pc' = [pc EXCEPT ![r] = IF Len(todo[r]) > 1 THEN "check" ELSE "done"]

Outcome(cid, kind) == [cid |-> cid, kind |-> kind]
NoCid == <<"none", 0>>

\* handler -> processNewAnalyses
Start(r) ==
    /\ pc[r] = "idle"
    /\ pc' = [pc EXCEPT ![r] = "load"]
    /\ UNCHANGED <<analyses, pinned, ledgerFile, processedHashes, todo, loaded, created,
                   results>>
    /\ UNCHANGED offPipeline

\* loadProcessedCIDs, line 252: readFile
Load(r) ==
    /\ pc[r] = "load"
    /\ IF ~Readable(ledgerFile)
        THEN /\ pc' = [pc EXCEPT ![r] = "loadReset"]
             /\ UNCHANGED processedHashes
        ELSE /\ pc' = [pc EXCEPT ![r] = "list"]
             /\ processedHashes' = [processedHashes EXCEPT ![r] = RowCids(ledgerFile.rows)]
    /\ UNCHANGED <<analyses, pinned, ledgerFile, todo, loaded, created, results>>
    /\ UNCHANGED offPipeline

\* loadProcessedCIDs, line 215: the catch writes '[]'
LoadReset(r) ==
    /\ pc[r] = "loadReset"
    /\ ledgerFile' = File(<<>>)
    /\ processedHashes' = [processedHashes EXCEPT ![r] = {}]
    /\ pc' = [pc EXCEPT ![r] = "list"]
    /\ UNCHANGED <<analyses, pinned, todo, loaded, created, results>>
    /\ UNCHANGED offPipeline

\* listPinataFiles and the filter, lines 256-266
List(r) ==
    /\ pc[r] = "list"
    /\ LET newCIDs == Filter(pinned, processedHashes[r]) IN
        IF newCIDs = <<>>
        THEN /\ results' = [results EXCEPT ![r] = <<Outcome(NoCid, "nothing")>>]
             /\ pc' = [pc EXCEPT ![r] = "done"]
             /\ UNCHANGED todo
        ELSE /\ todo' = [todo EXCEPT ![r] = newCIDs]
             /\ pc' = [pc EXCEPT ![r] = "check"]
             /\ UNCHANGED results
    /\ processedHashes' = [processedHashes EXCEPT ![r] = {}]
    /\ UNCHANGED <<analyses, pinned, ledgerFile, loaded, created>>
    /\ UNCHANGED offPipeline

\* listPinataFiles throws: processNewAnalyses rethrows
ListFails(r) ==
    /\ pc[r] = "list"
    /\ pc' = [pc EXCEPT ![r] = "threw"]
    /\ processedHashes' = [processedHashes EXCEPT ![r] = {}]
    /\ UNCHANGED <<analyses, pinned, ledgerFile, todo, loaded, created, results>>
    /\ UNCHANGED offPipeline

\* isAlreadyProcessed, lines 220-223 and 274-281
isAlreadyProcessed(cid) == cid \in RowCids(ledgerFile.rows)

Check(r) ==
    /\ pc[r] = "check"
    /\ IF ~Readable(ledgerFile)
        THEN /\ pc' = [pc EXCEPT ![r] = "checkReset"]
             /\ UNCHANGED <<todo, results>>
        ELSE IF isAlreadyProcessed(Head(todo[r]))
        THEN Continue(r, Outcome(Head(todo[r]), "duplicate"))
        ELSE /\ pc' = [pc EXCEPT ![r] = "fetch"]
             /\ UNCHANGED <<todo, results>>
    /\ UNCHANGED <<analyses, pinned, ledgerFile, processedHashes, loaded, created>>
    /\ UNCHANGED offPipeline

CheckReset(r) ==
    /\ pc[r] = "checkReset"
    /\ ledgerFile' = File(<<>>)
    /\ pc' = [pc EXCEPT ![r] = "fetch"]
    /\ UNCHANGED <<analyses, pinned, processedHashes, todo, loaded, created, results>>
    /\ UNCHANGED offPipeline

\* fetchIPFSData, line 284: the gateway answers and the document is valid
Fetch(r) ==
    /\ pc[r] = "fetch"
    /\ \E data \in IPFSDocuments : validateIPFSData(data) = {}
    /\ pc' = [pc EXCEPT ![r] = "submit"]
    /\ UNCHANGED <<analyses, pinned, ledgerFile, processedHashes, todo, loaded, created,
                   results>>
    /\ UNCHANGED offPipeline

\* fetchIPFSData throws (the gateway does): caught at line 299
FetchFails(r) ==
    /\ pc[r] = "fetch"
    /\ Continue(r, Outcome(Head(todo[r]), "failed"))
    /\ UNCHANGED <<analyses, pinned, ledgerFile, processedHashes, loaded, created>>
    /\ UNCHANGED offPipeline

Rejected_Records(r) ==
    /\ Continue(r, Outcome(Head(todo[r]), "invalid"))
    /\ ledgerFile' = [state |-> "whole",
                      rows  |-> Append(ledgerFile.rows,
                                       [cid        |-> Head(todo[r]),
                                        proposalId |-> <<NoCid, 0, "none">>,
                                        status     |-> "failed"])]
    /\ UNCHANGED <<loaded, created>>
    /\ UNCHANGED <<system, chainVars, simpleVars, tarsVars>>

\* what the catch of line 299 does with a document validateIPFSData rejects:
\* the outcome is a failure whose error names the validation
Rejected(r) ==
    /\ Continue(r, Outcome(Head(todo[r]), "invalid"))
    /\ UNCHANGED <<ledgerFile, loaded, created>>
    /\ UNCHANGED <<system, chainVars, simpleVars, tarsVars>>

\* fetchIPFSData throws (validateIPFSData does, lines 404-441 and 446)
ValidateFails(r) ==
    /\ pc[r] = "fetch"
    /\ \E data \in IPFSDocuments : validateIPFSData(data) # {}
    /\ Rejected(r)
    /\ UNCHANGED <<analyses, pinned, processedHashes, docVars, photoVars, impactVars, resizeVars, agentVars>>

\* createProposal, lines 316-402: the transaction is mined and its event is read
Submit(r) ==
    /\ pc[r] = "submit"
    /\ createProposal(Wallet, DescriptionOf(Head(todo[r])))
    /\ created' = [created EXCEPT ![r] =
            [success |-> TRUE,
             proposalId |-> ProposalId(DescriptionOf(Head(todo[r])), now, Wallet)]]
    /\ pc' = [pc EXCEPT ![r] = "saveLoad"]
    /\ UNCHANGED <<analyses, pinned, ledgerFile, processedHashes, todo, loaded, results>>
    /\ UNCHANGED <<system, docVars, photoVars, impactVars, resizeVars, agentVars, tarsVars>>

\* createProposal throws and no proposal exists: the transaction reverts (or never
\* reaches the chain)
SubmitFails(r) ==
    /\ pc[r] = "submit"
    /\ Continue(r, Outcome(Head(todo[r]), "failed"))
    /\ UNCHANGED <<analyses, pinned, ledgerFile, processedHashes, loaded, created>>
    /\ UNCHANGED offPipeline

\* createProposal throws although the transaction was mined: tx.wait() fails
SubmitLost(r) ==
    /\ pc[r] = "submit"
    /\ createProposal(Wallet, DescriptionOf(Head(todo[r])))
    /\ Continue(r, Outcome(Head(todo[r]), "failed"))
    /\ UNCHANGED <<analyses, pinned, ledgerFile, processedHashes, loaded, created>>
    /\ UNCHANGED <<system, docVars, photoVars, impactVars, resizeVars, agentVars, tarsVars>>

\* saveProcessedCID, line 226: loadProcessedCIDs
SaveLoad(r) ==
    /\ pc[r] = "saveLoad"
    /\ IF ~Readable(ledgerFile)
        THEN /\ pc' = [pc EXCEPT ![r] = "saveReset"]
             /\ UNCHANGED loaded
        ELSE /\ pc' = [pc EXCEPT ![r] = "saveOpen"]
             /\ loaded' = [loaded EXCEPT ![r] = ledgerFile.rows]
    /\ UNCHANGED <<analyses, pinned, ledgerFile, processedHashes, todo, created, results>>
    /\ UNCHANGED offPipeline

SaveReset(r) ==
    /\ pc[r] = "saveReset"
    /\ ledgerFile' = File(<<>>)
    /\ loaded' = [loaded EXCEPT ![r] = <<>>]
    /\ pc' = [pc EXCEPT ![r] = "saveOpen"]
    /\ UNCHANGED <<analyses, pinned, processedHashes, todo, created, results>>
    /\ UNCHANGED offPipeline

\* the row of lines 290-296
Row(cid, result) ==
    [cid        |-> cid,
     proposalId |-> result.proposalId,
     status     |-> IF result.success THEN "success" ELSE "failed"]

NoResult == [success |-> FALSE, proposalId |-> <<NoCid, 0, "none">>]

\* saveProcessedCID, line 228: writeFile opens the file, which truncates it
SaveOpen(r) ==
    /\ pc[r] = "saveOpen"
    /\ ledgerFile' = Truncated
    /\ pc' = [pc EXCEPT ![r] = "saveWrite"]
    /\ UNCHANGED <<analyses, pinned, processedHashes, todo, loaded, created, results>>
    /\ UNCHANGED offPipeline

\* saveProcessedCID, lines 227-228: the rows are written; then results.push(result)
SaveWrite(r) ==
    /\ pc[r] = "saveWrite"
    /\ ledgerFile' = File(Append(loaded[r], Row(Head(todo[r]), created[r])))
    /\ loaded' = [loaded EXCEPT ![r] = <<>>]
    /\ created' = [created EXCEPT ![r] = NoResult]
    /\ Continue(r, Outcome(Head(todo[r]), "success"))
    /\ UNCHANGED <<analyses, pinned, processedHashes>>
    /\ UNCHANGED offPipeline

\* writeFile throws: caught at line 299
SaveFails(r) ==
    /\ pc[r] = "saveOpen"
    /\ loaded' = [loaded EXCEPT ![r] = <<>>]
    /\ created' = [created EXCEPT ![r] = NoResult]
    /\ Continue(r, Outcome(Head(todo[r]), "failed"))
    /\ UNCHANGED <<analyses, pinned, ledgerFile, processedHashes>>
    /\ UNCHANGED offPipeline

(***************************************************************************)
(*   The proposal description: the publisher writes it, Voting.tsx reads it *)
(***************************************************************************)
\* A string is the sequence of its tokens: words, labels, digits, blanks and
\* punctuation marks.  undefined and the empty string are both <<>> (both are
\* falsy); an optional number, array or object is <<>> or <<value>>.
SP  == " "
NL  == "\n"
NA  == "N/A"
DEG == "*C"     \* the degree sign and the C that follow the temperature

\* `${n}` of a natural number
DigitChars == <<"0", "1", "2", "3", "4", "5", "6", "7", "8", "9">>
RECURSIVE toString(_)
toString(n) ==
    IF n < Len(DigitChars) THEN <<DigitChars[n + 1]>>
    ELSE toString(n \div Len(DigitChars)) \o <<DigitChars[(n % Len(DigitChars)) + 1]>>

NaN == 0 - 1

\* String.prototype.trim
trim(text) ==
    LET IsSpace(c) == c \in {SP, NL}
        RECURSIVE TrimStart(_)
        TrimStart(t) == IF t # <<>> /\ IsSpace(Head(t)) THEN TrimStart(Tail(t)) ELSE t
        RECURSIVE TrimEnd(_)
        TrimEnd(t) ==
            IF t # <<>> /\ IsSpace(t[Len(t)]) THEN TrimEnd(SubSeq(t, 1, Len(t) - 1)) ELSE t
    IN  TrimEnd(TrimStart(text))

\* parseInt and, on the whole numbers of this model, parseFloat: blanks are
\* skipped, the leading digits are read, and no digit gives NaN
parseInt(text) ==
    LET IsDigit(c) == \E i \in DOMAIN DigitChars : DigitChars[i] = c
        DigitValue(c) == (CHOOSE i \in DOMAIN DigitChars : DigitChars[i] = c) - 1
        RECURSIVE ParseDigits(_, _)
        ParseDigits(t, acc) ==
            IF t = <<>> \/ ~IsDigit(Head(t)) THEN acc
            ELSE ParseDigits(Tail(t), acc * Len(DigitChars) + DigitValue(Head(t)))
    IN  IF trim(text) = <<>> \/ ~IsDigit(Head(trim(text))) THEN NaN
        ELSE ParseDigits(trim(text), 0)

\* Array.prototype.join
RECURSIVE join(_, _)
join(parts, sep) ==
    IF parts = <<>> THEN <<>>
    ELSE IF Len(parts) = 1 THEN parts[1]
    ELSE parts[1] \o sep \o join(Tail(parts), sep)

Boolean(x) == x # <<>>
Least(S) == IF S = {} THEN 0 ELSE CHOOSE i \in S : \A j \in S : i <= j

\* String.prototype.includes / startsWith / toLowerCase, token by token
includes(text, needle) ==
    \E i \in 1..(Len(text) - Len(needle) + 1) :
        SubSeq(text, i, i + Len(needle) - 1) = needle
startsWith(text, needle) ==
    Len(text) >= Len(needle) /\ SubSeq(text, 1, Len(needle)) = needle
Lower(c) ==
    CASE c = "N/A" -> "n/a"
      [] c = "Not" -> "not"
      [] c = "Available" -> "available"
      [] OTHER -> c
toLowerCase(text) == [i \in DOMAIN text |-> Lower(text[i])]

\* text.split(sep)[0] and text.split(sep)[1], sep one token
splitFirst(text, sep) ==
    LET i == Least({k \in DOMAIN text : text[k] = sep})
    IN  IF i = 0 THEN text ELSE SubSeq(text, 1, i - 1)
splitSecond(text, sep) ==
    LET i    == Least({k \in DOMAIN text : text[k] = sep})
        rest == SubSeq(text, i + 1, Len(text))
    IN  IF i = 0 THEN <<>> ELSE splitFirst(rest, sep)

\* ---- the analysis documents createProposal is given (IPFSAnalysis, validated)
\* a missing part of the address, weather or news is left out of the document;
\* relevantArticles may be an empty array, a temperature may be 0
PlantTrees == <<"Plant", SP, "trees">>
TruckWater == <<"Truck", SP, "water", SP, "where", SP, "it", SP, "is", SP,
                "not", SP, "available">>
Titles     == <<(<<"Flood", SP, "warning">>), (<<"River", SP, "rising">>),
                (<<"Levee", SP, "repaired">>)>>
IPFSAnalyses ==
    [city : {<<>>, <<"Austin">>}, state : {<<>>, <<"TX">>}, country : {<<>>, <<"USA">>},
     lat : {30}, lng : {97},
     text : {<<"Flooded", SP, "street">>},
     category : {<<"infrastructure">>},
     confidence : {90},
     conditions : {<<>>, <<"Clear">>},
     temperature : {<<>>, <<0>>, <<25>>},
     relevantArticles : {<<>>, << <<>> >>, << SubSeq(Titles, 1, 1) >>, << Titles >>},
     score : {7, 100},
     urgency : {<<"high">>, <<"medium">>},
     estimatedImpact : {<<"Road", SP, "closed">>},
     recommendedActions : {<<>>, <<PlantTrees>>, <<TruckWater>>, <<PlantTrees, TruckWater>>},
     cid : {<<"Qm1">>}]

\* [city, state, country].filter(Boolean).join(", ")
location(d) == join(SelectSeq(<<d.city, d.state, d.country>>, Boolean), <<",", SP>>)

\* the `- Weather:` line: conditions || 'N/A' and temperature || 'N/A', where
\* 0 is as falsy as a missing number
weatherLine(d) ==
    <<"-", SP, "Weather:", SP>>
        \o (IF Boolean(d.conditions) THEN d.conditions ELSE <<NA>>)
        \o <<SP, "(">>
        \o (IF Boolean(d.temperature) /\ d.temperature[1] # 0
            THEN toString(d.temperature[1]) ELSE <<NA>>)
        \o <<DEG, ")">>

\* arr.map(x => `- ${x}`).join('\n'), as the lines it makes: an empty array
\* gives the empty string, which is one empty line
bulletLines(arr) ==
    IF arr = <<>> THEN << <<>> >>
    ELSE [i \in DOMAIN arr |-> <<"-", SP>> \o arr[i]]

\* the line of the news expression: empty when relevantArticles is falsy,
\* else a line break, the label and the first two titles
newsLines(d) ==
    IF ~Boolean(d.relevantArticles) THEN << <<>> >>
    ELSE << <<>>, <<"Recent Related News:">> >>
            \o bulletLines(SubSeq(d.relevantArticles[1], 1,
                                  IF Len(d.relevantArticles[1]) < 2
                                  THEN Len(d.relevantArticles[1]) ELSE 2))

\* the description template of createProposal, line by line
descriptionTemplate(d) ==
    << <<"Impact Initiative Proposal">>,
       <<>>,
       <<"Location:", SP>> \o location(d),
       <<"Coordinates:", SP>> \o toString(d.lat) \o <<",", SP>> \o toString(d.lng),
       <<"Impact Score:", SP>> \o toString(d.score),
       <<"Urgency:", SP>> \o d.urgency,
       <<"Category:", SP>> \o d.category,
       <<"Verification Status:", SP, "Verified", SP, "via", SP, "IPFS", SP,
         "(", "CID:", SP>> \o d.cid \o <<")">>,
       <<>>,
       <<"Description:">>,
       d.text,
       <<>>,
       <<"Current Conditions:">>,
       weatherLine(d) >>
    \o newsLines(d)
    \o << <<>>,
          <<"Estimated Impact:">>,
          d.estimatedImpact,
          <<>>,
          <<"Recommended Actions:">> >>
    \o bulletLines(d.recommendedActions)
    \o << <<>>,
          <<"Evidence:">>,
          <<"-", SP, "Full Analysis:", SP, "https:", "/", "/",
            "gateway.pinata.cloud", "/", "ipfs", "/">> \o d.cid,
          <<"-", SP, "Confidence Score:", SP>> \o toString(d.confidence) \o <<"%">>,
          <<>>,
          <<"Verification Details:">>,
          <<"This proposal has been automatically generated from verified IPFS data.">>,
          <<"All information has been cryptographically secured and can be",
            SP, "independently verified.">> >>

\* createProposalFromIPFS holds the same template, character for character
createProposalFromIPFS_description(d) == descriptionTemplate(d)

\* ---- Voting.tsx
isValidValue(value) ==
    /\ Boolean(value)
    /\ ~includes(toLowerCase(value), <<"n/a">>)
    /\ ~includes(toLowerCase(value), <<"not", SP, "available">>)

\* lines.find(l => l.startsWith(label)) and lines.find(l => l.includes(label)),
\* as the index of the line; 0 when there is none
findStartsWith(lines, label) ==
    Least({i \in DOMAIN lines : startsWith(lines[i], <<label>>)})
findIncludes(lines, label) ==
    Least({i \in DOMAIN lines : includes(lines[i], <<label>>)})

\* lines.find(...)?.split(label)[1]?.trim(), on the line found at index i
valueAfter(lines, i, label) ==
    IF i = 0 THEN <<>> ELSE trim(splitSecond(lines[i], label))

\* lines.slice(start + 1, end), end = 0 standing for no end found
sliceBetween(lines, start, end) ==
    SubSeq(lines, start + 1, IF end = 0 THEN Len(lines) ELSE end - 1)

extractContent(lines, startLabel, endLabels) ==
    LET startIndex == findStartsWith(lines, startLabel)
        endIndex   == Least({i \in DOMAIN lines :
                                /\ i > startIndex
                                /\ \E label \in endLabels : startsWith(lines[i], <<label>>)})
    IN  IF startIndex = 0 THEN <<>>
        ELSE trim(join(sliceBetween(lines, startIndex, endIndex), <<NL>>))

\* weatherLine?.match(/\((.*?)\)/)?.[1]
inParentheses(text) ==
    LET open  == Least({k \in DOMAIN text : text[k] = "("})
        close == Least({k \in DOMAIN text : k > open /\ text[k] = ")"})
    IN  IF open = 0 \/ close = 0 THEN <<>> ELSE SubSeq(text, open + 1, close - 1)

\* the lines that start with '-', without the dash and trimmed, the valid ones
bulletValues(lines) ==
    LET dashed(l) == startsWith(l, <<"-">>)
        value(l)  == trim(Tail(l))
        items     == SelectSeq(lines, dashed)
    IN  SelectSeq([i \in DOMAIN items |-> value(items[i])], isValidValue)

parseProposalDescription(descriptionText) ==
    LET lines == [i \in DOMAIN descriptionText |-> trim(descriptionText[i])]
        location_ == valueAfter(lines, findStartsWith(lines, "Location:"), "Location:")
        coordinatesLine ==
            valueAfter(lines, findStartsWith(lines, "Coordinates:"), "Coordinates:")
        coordinates ==
            IF Boolean(coordinatesLine)
            THEN << [lat |-> parseInt(splitFirst(coordinatesLine, ",")),
                     lng |-> parseInt(splitSecond(coordinatesLine, ","))] >>
            ELSE <<>>
        scoreText ==
            valueAfter(lines, findStartsWith(lines, "Impact Score:"), "Impact Score:")
        impactScore == parseInt(IF Boolean(scoreText) THEN scoreText ELSE <<"0">>)
        verificationStatus ==
            valueAfter(lines, findIncludes(lines, "Verification Status:"),
                       "Verification Status:")
        description_ ==
            extractContent(lines, "Description:",
                {"Current Conditions:", "Estimated Impact:", "Recommended Actions:"})
        verificationDetails ==
            extractContent(lines, "Verification Details:",
                {"Evidence:", "Description:", "Current Conditions:"})
        proposedAction ==
            extractContent(lines, "Proposed Action:",
                {"Evidence:", "Description:", "Verification Details:"})
        weatherText == valueAfter(lines, findIncludes(lines, "Weather:"), "Weather:")
        temperatureLine ==
            valueAfter(lines, findIncludes(lines, "Temperature:"), "Temperature:")
        weather == trim(splitFirst(weatherText, "("))
        temperature ==
            IF Boolean(temperatureLine) THEN temperatureLine
            ELSE inParentheses(weatherText)
        currentConditions ==
            [weather     |-> IF isValidValue(weather) THEN weather ELSE <<>>,
             temperature |-> IF isValidValue(temperature) THEN temperature ELSE <<>>]
        estimatedImpact ==
            extractContent(lines, "Estimated Impact:", {"Recommended Actions:", "Evidence:"})
        actionsStart == findStartsWith(lines, "Recommended Actions:")
        actionsEnd ==
            Least({i \in DOMAIN lines :
                    /\ i > actionsStart
                    /\ \/ startsWith(lines[i], <<"Evidence:">>)
                       \/ startsWith(lines[i], <<"Verification Details:">>)})
        recommendedActions ==
            IF actionsStart # 0
            THEN bulletValues(sliceBetween(lines, actionsStart, actionsEnd))
            ELSE <<>>
        mediaAnalysis ==
            valueAfter(lines, findIncludes(lines, "Full Analysis:"), "Full Analysis:")
        confidenceText ==
            LET i == findIncludes(lines, "Confidence Score:")
                after == IF i = 0 THEN <<>> ELSE splitSecond(lines[i], "Confidence Score:")
                isNotPercent(c) == c # "%"
            IN  trim(SelectSeq(after, isNotPercent))
        confidence == parseInt(IF Boolean(confidenceText) THEN confidenceText ELSE <<"0">>)
        lastSlash == Least({k \in DOMAIN mediaAnalysis :
                              /\ mediaAnalysis[k] = "/"
                              /\ \A j \in DOMAIN mediaAnalysis :
                                    j > k => mediaAnalysis[j] # "/"})
        ipfsCID == SubSeq(mediaAnalysis, lastSlash + 1, Len(mediaAnalysis))
        newsStart == findIncludes(lines, "Recent Related News:")
        newsEnd ==
            Least({i \in DOMAIN lines :
                    /\ i > newsStart
                    /\ \/ startsWith(lines[i], <<"Estimated Impact:">>)
                       \/ startsWith(lines[i], <<"Recommended Actions:">>)})
        news ==
            IF newsStart # 0
            THEN LET titles == bulletValues(sliceBetween(lines, newsStart, newsEnd))
                 IN  [i \in DOMAIN titles |-> [title |-> titles[i], url |-> <<>>]]
            ELSE <<>>
    IN  [location            |-> location_,
         coordinates         |-> coordinates,
         impactScore         |-> impactScore,
         verificationStatus  |-> verificationStatus,
         description         |-> IF isValidValue(description_) THEN description_ ELSE <<>>,
         verificationDetails |->
            IF isValidValue(verificationDetails) THEN verificationDetails ELSE <<>>,
         proposedAction      |-> IF isValidValue(proposedAction) THEN proposedAction ELSE <<>>,
         currentConditions   |->
            IF Boolean(weatherText) \/ Boolean(temperatureLine)
            THEN IF Boolean(currentConditions.weather) \/ Boolean(currentConditions.temperature)
                 THEN <<currentConditions>> ELSE <<>>
            ELSE <<>>,
         estimatedImpact     |-> IF isValidValue(estimatedImpact) THEN estimatedImpact ELSE <<>>,
         recommendedActions  |-> recommendedActions,
         evidence            |->
            [mediaAnalysis      |-> IF isValidValue(mediaAnalysis) THEN mediaAnalysis ELSE <<>>,
             verificationReport |-> <<>>,
             ipfsCID            |-> ipfsCID,
             confidence         |-> IF confidence # 0 THEN <<confidence>> ELSE <<>>],
         news                |-> news]

\* ---- one description, from the document to the page
DocIdle ==
    /\ ipfsData = <<>>
    /\ proposalDescription = <<>>
    /\ parsedData = <<>>


(***************************************************************************)
(*     The media analyst: the directory batch of AnalyzePhotoAction        *)
(***************************************************************************)
\* Sizes are counted in megabytes.  An image is the photo it shows, its format
\* and the quality and the longest side it was last encoded with; two buffers
\* hold the same bytes exactly when they are the same image.  null and
\* undefined results are <<>>, a result r is <<r>>, a missing field "undefined".
MAX_SIZE  == 5
FullSide  == 4000
Smaller(a, b) == IF a < b THEN a ELSE b

\* buffer.length: the bytes shrink with the quality and with the area
Size(image) ==
    LET area(side) == (side \div 100) * (side \div 100)
        bytes == (image.raw * image.quality * area(image.side)) \div (100 * area(FullSide))
    IN  IF bytes = 0 THEN 1 ELSE bytes

\* sharp(buffer).resize(side, side, {fit: 'inside'}).jpeg({quality}).toBuffer()
sharp(buffer, quality, side) ==
    [buffer EXCEPT !.format = "jpeg",
                   !.quality = Smaller(@, quality),
                   !.side = Smaller(@, side)]

\* ethers.keccak256(new Uint8Array(buffer)): one hash for one sequence of bytes
keccak256(buffer) == <<"keccak256", buffer>>

\* convertHeicToBuffer: heicConvert, then the quality loop and the 1600 resize
RECURSIVE heicQualityLoop(_, _, _)
heicQualityLoop(jpegBuffer, resizedBuffer, quality) ==
    IF Size(resizedBuffer) > MAX_SIZE /\ quality > 30
    THEN heicQualityLoop(jpegBuffer, sharp(jpegBuffer, quality - 10, FullSide), quality - 10)
    ELSE IF Size(resizedBuffer) > MAX_SIZE
    THEN sharp(jpegBuffer, IF quality > 30 THEN quality ELSE 30, 1600)
    ELSE resizedBuffer
convertHeicToBuffer(buffer) ==
    LET jpegBuffer == sharp(buffer, 90, FullSide)
    IN  IF Size(jpegBuffer) > MAX_SIZE
        THEN heicQualityLoop(jpegBuffer, sharp(jpegBuffer, 80, FullSide), 80)
        ELSE jpegBuffer

\* analyzePhoto, lines 386-404: the resize loop, which ends at quality 30
RECURSIVE resizeLoop(_, _, _)
resizeLoop(buffer, processedBuffer, quality) ==
    IF Size(processedBuffer) > MAX_SIZE /\ quality > 30
    THEN resizeLoop(buffer, sharp(buffer, quality - 10, 2000), quality - 10)
    ELSE processedBuffer
resizeForAnalysis(buffer) ==
    IF Size(buffer) > MAX_SIZE
    THEN resizeLoop(buffer, sharp(buffer, 80, FullSide), 80)
    ELSE buffer

\* ImageAnalysisProvider.resizeImageIfNeeded: the image it sends on, or Null
\* where it throws
TARGET_SIZE == (MAX_SIZE * 100) \div 137
RECURSIVE visionLoop(_, _, _)
visionLoop(imageBuffer, resizedBuffer, quality) ==
    IF Size(resizedBuffer) > TARGET_SIZE /\ quality > 15
    THEN visionLoop(imageBuffer,
                    sharp(imageBuffer, quality - 15, IF quality - 15 < 30 THEN 800 ELSE 1200),
                    quality - 15)
    ELSE IF Size(resizedBuffer) > TARGET_SIZE
    THEN sharp(imageBuffer, 10, 600)
    ELSE resizedBuffer
resizeImageIfNeeded(imageBuffer) ==
    IF Size(imageBuffer) <= TARGET_SIZE THEN <<imageBuffer>>
    ELSE LET resizedBuffer == visionLoop(imageBuffer, sharp(imageBuffer, 60, 1200), 60)
         IN  IF Size(resizedBuffer) > TARGET_SIZE THEN Null ELSE <<resizedBuffer>>

\* ---- the providers, on what their services answer for the photo `file`
\* LocationProvider.get / reverseGeocode
locationGet(file) ==
    IF file.geocode = "ok"
    THEN <<[address |-> "Main St", city |-> "Austin", state |-> "TX", country |-> "USA",
            displayName |-> "Main St, Austin"]>>
    ELSE <<[address |-> "Unknown", city |-> Undefined, state |-> Undefined,
            country |-> Undefined, displayName |-> "Location details unavailable"]>>

\* WeatherProvider: `timestamp` is set on historical data only
getCurrentWeather(file) ==
    IF file.current = "ok"
    THEN <<[temp |-> 25, main |-> "Clear", timestamp |-> Undefined]>>
    ELSE Null
getHistoricalWeather(file) ==
    CASE file.historical = "ok" ->
            <<[temp |-> 18, main |-> "Rain", timestamp |-> "DateTimeOriginal"]>>
      [] file.historical \in {"401", "403"} -> getCurrentWeather(file)
      [] OTHER -> getCurrentWeather(file)    \* the throw of line 99, caught at line 131

\* NewsProvider.get / getLocationNews
newsGet(file) ==
    IF file.news = "ok" THEN << <<"Flood warning">> >> ELSE Null

\* part_008, line 126: how the record marks its weather
dataType(weatherData) ==
    IF weatherData[1].timestamp # Undefined THEN "historical" ELSE "current"

\* sendToAVS: the result it returns; it never throws
sendToAVS(file, taskIndex) ==
    CASE file.avs = "ok" ->
            [taskId |-> taskIndex, success |-> TRUE, message |-> "task created"]
      [] file.avs = "unconfigured" ->
            [taskId |-> 0, success |-> FALSE,
             message |-> "AVS environment variables not configured"]
      [] OTHER ->
            [taskId |-> 0, success |-> FALSE, message |-> "AVS contract interaction failed"]

\* formatAnalysisForIPFS, on the sections the pipeline publishes
formatAnalysisForIPFS(imageAnalysis, contextualData, verification) ==
    [hash     |-> imageAnalysis.hash,
     location |-> IF contextualData.location = Null
                    THEN [address |-> Undefined, city |-> Undefined]
                    ELSE [address |-> contextualData.location[1].address,
                          city    |-> contextualData.location[1].city],
     \* weatherData.temperature and .conditions: the provider's data has no such fields
     weather  |-> IF contextualData.weather = Null THEN Null
                    ELSE <<[temperature |-> Undefined, conditions |-> Undefined]>>,
     news     |-> contextualData.news,
     verification |-> [isVerified |-> verification.success,
                       method     |-> "EigenLayer AVS",
                       taskId     |-> verification.taskId]]

\* ---- the photos: what each file is and what the services answer for it
Ordinary ==
    [heic |-> FALSE, raw |-> 4, gps |-> TRUE, readable |-> TRUE, avs |-> "ok",
     geocode |-> "ok", historical |-> "ok", current |-> "ok", news |-> "ok", pin |-> "ok"]
Photos ==
    {Ordinary,
     [Ordinary EXCEPT !.heic = TRUE],
     [Ordinary EXCEPT !.raw = 12],
     [Ordinary EXCEPT !.raw = 100],
     [Ordinary EXCEPT !.raw = 100, !.heic = TRUE],
     [Ordinary EXCEPT !.gps = FALSE],
     [Ordinary EXCEPT !.readable = FALSE],
     [Ordinary EXCEPT !.avs = "unconfigured"],
     [Ordinary EXCEPT !.avs = "reverted"],
     [Ordinary EXCEPT !.geocode = "fails"],
     [Ordinary EXCEPT !.historical = "403"],
     [Ordinary EXCEPT !.historical = "403", !.current = "fails"],
     [Ordinary EXCEPT !.historical = "500"],
     [Ordinary EXCEPT !.news = "fails"],
     [Ordinary EXCEPT !.pin = "fails"]}
Directories ==
    {<<>>} \cup {<<p>> : p \in Photos} \cup {<<p, q>> : p \in Photos, q \in Photos}

NoPhoto ==
    [buffer |-> Null, avsResult |-> Null, hash |-> Null, processedBuffer |-> Null,
     imageAnalysis |-> Null, locationDetails |-> Null, weatherData |-> Null,
     newsData |-> Null]
At(step, i) == [step |-> step, i |-> i]
ThisPhoto == photoFiles[photoPc.i]

PhotoIdle ==
    /\ photoFiles = <<>>
    /\ photoPc = At("idle", 0)
    /\ photo = NoPhoto
    /\ photoResults = <<>>
    /\ avsTasks = <<>>
    /\ ipfsPins = <<>>

offPhotos == <<system, chainVars, simpleVars, tarsVars, pipeVars, docVars, impactVars, resizeVars, agentVars>>

\* handler, lines 233-254: readdir; no photo throws
ListPhotos ==
    /\ system = "Analyzer"
    /\ photoPc.step = "idle"
    /\ photoPc' = IF photoFiles = <<>> THEN At("threw", 0) ELSE At("read", 1)
    /\ UNCHANGED <<photoFiles, photo, photoResults, avsTasks, ipfsPins>>
    /\ UNCHANGED offPhotos

\* lines 258-287: readFile, exifr.parse and, for a .heic file, convertHeicToBuffer
ReadPhoto ==
    /\ system = "Analyzer"
    /\ photoPc.step = "read"
    /\ ThisPhoto.readable
    /\ LET buffer == [content |-> photoPc.i, raw |-> ThisPhoto.raw,
                      format |-> IF ThisPhoto.heic THEN "heic" ELSE "jpeg",
                      quality |-> 100, side |-> FullSide]
       IN  photo' = [NoPhoto EXCEPT
                        !.buffer = <<IF ThisPhoto.heic THEN convertHeicToBuffer(buffer) ELSE buffer>>]
    /\ photoPc' = At("avs", photoPc.i)
    /\ UNCHANGED <<photoFiles, photoResults, avsTasks, ipfsPins>>
    /\ UNCHANGED offPhotos

\* one of them throws: nothing in the loop catches it, the handler rethrows (l.318)
ReadFails ==
    /\ system = "Analyzer"
    /\ photoPc.step = "read"
    /\ ~ThisPhoto.readable
    /\ photoPc' = At("threw", photoPc.i)
    /\ photoResults' = <<>>           \* the results array goes with the frame
    /\ photo' = NoPhoto
    /\ UNCHANGED <<photoFiles, avsTasks, ipfsPins>>
    /\ UNCHANGED offPhotos

\* lines 289-292: sendToAVS(processedBuffer, originalMetadata)
SendToAVS ==
    /\ system = "Analyzer"
    /\ photoPc.step = "avs"
    /\ avsTasks' = IF ThisPhoto.avs = "ok"
                    THEN Append(avsTasks, keccak256(photo.buffer[1])) ELSE avsTasks
    /\ photo' = [photo EXCEPT !.avsResult = <<sendToAVS(ThisPhoto, Len(avsTasks'))>>]
    /\ photoPc' = At("analyze", photoPc.i)
    /\ UNCHANGED <<photoFiles, photoResults, ipfsPins>>
    /\ UNCHANGED offPhotos

\* analyzePhoto, lines 377-441: the hash, the resize and the image analysis
AnalyzeImage ==
    /\ system = "Analyzer"
    /\ photoPc.step = "analyze"
    /\ photo' = [photo EXCEPT
                    !.hash = <<keccak256(photo.buffer[1])>>,
                    !.processedBuffer = <<resizeForAnalysis(photo.buffer[1])>>,
                    !.imageAnalysis = resizeImageIfNeeded(resizeForAnalysis(photo.buffer[1]))]
    /\ photoPc' = At("lookup", photoPc.i)
    /\ UNCHANGED <<photoFiles, photoResults, avsTasks, ipfsPins>>
    /\ UNCHANGED offPhotos

\* analyzePhoto, lines 443-486: the three lookups, when the photo has coordinates
Lookup ==
    /\ system = "Analyzer"
    /\ photoPc.step = "lookup"
    /\ photo' = [photo EXCEPT
                    !.locationDetails = IF ThisPhoto.gps THEN locationGet(ThisPhoto) ELSE Null,
                    !.weatherData = IF ThisPhoto.gps THEN getHistoricalWeather(ThisPhoto) ELSE Null,
                    !.newsData = IF ThisPhoto.gps THEN newsGet(ThisPhoto) ELSE Null]
    /\ photoPc' = At("pin", photoPc.i)
    /\ UNCHANGED <<photoFiles, photoResults, avsTasks, ipfsPins>>
    /\ UNCHANGED offPhotos

\* the record of lines 488-517: success is true, and photoData carries no taskId
\* (an optional id: Null, or <<id>>)
formattedData ==
    formatAnalysisForIPFS(
        [hash |-> photo.hash[1]],
        [location |-> photo.locationDetails, weather |-> photo.weatherData,
         news |-> photo.newsData],
        [success |-> TRUE, taskId |-> Null])

\* lines 519-566 and 311-319: the image and the record are pinned, the result is
\* pushed, and the loop goes to the next file or returns
Pin ==
    /\ system = "Analyzer"
    /\ photoPc.step = "pin"
    /\ ThisPhoto.pin = "ok"
    /\ ipfsPins' = Append(ipfsPins, [image |-> photo.processedBuffer[1],
                                     analysis |-> formattedData])
    /\ photoResults' = Append(photoResults,
            [file |-> photoPc.i, success |-> TRUE, data |-> formattedData,
             avsVerification |-> photo.avsResult[1]])
    /\ photoPc' = IF photoPc.i < Len(photoFiles)
                    THEN At("read", photoPc.i + 1) ELSE At("returned", photoPc.i)
    /\ photo' = NoPhoto
    /\ UNCHANGED <<photoFiles, avsTasks>>
    /\ UNCHANGED offPhotos

\* pinAnalysisWithImage throws: analyzePhoto rethrows (l.575), so does the handler
PinFails ==
    /\ system = "Analyzer"
    /\ photoPc.step = "pin"
    /\ ThisPhoto.pin # "ok"
    /\ photoPc' = At("threw", photoPc.i)
    /\ photoResults' = <<>>           \* the results array goes with the frame
    /\ photo' = NoPhoto
    /\ UNCHANGED <<photoFiles, avsTasks, ipfsPins>>
    /\ UNCHANGED offPhotos

NextAnalyzer ==
    \/ ListPhotos
    \/ ReadPhoto
    \/ ReadFails
    \/ SendToAVS
    \/ AnalyzeImage
    \/ Lookup
    \/ Pin
    \/ PinFails

(***************************************************************************)
(*                          The impact evaluator                           *)
(***************************************************************************)
baseAmount == 50000
CategoryNames == {"urgency", "scope", "sustainability", "feasibility", "communityBenefit"}

\* Math.round of num / den, both positive
Round(num, den) == (2 * num + den) \div (2 * den)

\* a score is a number of fifths: the sum of the five category scores
totalScore(c) == Sum(c, CategoryNames)
determineMechanism_Above(score) ==
    IF score > 80 * 5 THEN "DAO"
    ELSE IF score > 60 * 5 THEN "HYBRID"
    ELSE "TRADITIONAL"
determineMechanism(score) ==
    IF score >= 80 * 5 THEN "DAO"
    ELSE IF score >= 60 * 5 THEN "HYBRID"
    ELSE "TRADITIONAL"
calculateTargetAmount(score) == Round(baseAmount * score, 5 * 100)

ImpactIdle ==
    /\ categories = <<>>
    /\ assessment = <<>>

\* ImpactEvaluator.handler
Evaluate ==
    /\ system = "Impact"
    /\ assessment = <<>>
    /\ assessment' = <<[totalScore   |-> totalScore(categories),
                        categories   |-> categories,
                        mechanism    |-> determineMechanism(totalScore(categories)),
                        targetAmount |-> calculateTargetAmount(totalScore(categories))]>>
    /\ UNCHANGED categories
    /\ UNCHANGED <<system, chainVars, simpleVars, tarsVars, pipeVars, docVars, photoVars,
                   resizeVars, agentVars>>

(***************************************************************************)
(*      The progressive re-encoding, for any size the encoder gives        *)
(***************************************************************************)
Loops == {"heic", "analyze", "vision"}

\* the ceiling, the first quality, the step and the floor of each loop:
\* convertHeicToBuffer l.123-131, analyzePhoto l.387-397, resizeImageIfNeeded l.42-60
settings(loop) ==
    CASE loop = "heic"    -> [ceiling |-> MAX_SIZE, quality |-> 80, step |-> 10, floor |-> 30]
      [] loop = "analyze" -> [ceiling |-> MAX_SIZE, quality |-> 80, step |-> 10, floor |-> 30]
      [] loop = "vision"  -> [ceiling |-> TARGET_SIZE, quality |-> 60, step |-> 15, floor |-> 15]

continues_WhileLarge(loop, size, quality) == size > settings(loop).ceiling

\* the while condition of the three loops
continues(loop, size, quality) ==
    size > settings(loop).ceiling /\ quality > settings(loop).floor

\* the sizes a buffer can have, in megabytes
Sizes == 1..(2 * MAX_SIZE)

NotEncoding == [loop |-> "none", step |-> "idle", quality |-> 100, size |-> 1]
ResizeIdle == resize = NotEncoding

offResize == <<system, chainVars, simpleVars, tarsVars, pipeVars, docVars, photoVars,
               impactVars, agentVars>>

\* the check before the loop and the first encoding at the loop's first quality
FirstEncode ==
    /\ system = "Resize"
    /\ resize.step = "start"
    /\ IF resize.size <= settings(resize.loop).ceiling
        THEN resize' = [resize EXCEPT !.step = "returned"]
        ELSE \E size \in Sizes :
                resize' = [resize EXCEPT !.step = "loop", !.size = size,
                                         !.quality = settings(resize.loop).quality]
    /\ UNCHANGED offResize

\* one iteration: the quality goes down by the step, the image is encoded again
Iterate ==
    /\ system = "Resize"
    /\ resize.step = "loop"
    /\ continues(resize.loop, resize.size, resize.quality)
    /\ \E size \in Sizes :
            resize' = [resize EXCEPT !.size = size,
                                     !.quality = @ - settings(resize.loop).step]
    /\ UNCHANGED offResize

\* after the loop: analyzePhoto goes on with what it has; the other two encode
\* once more, at smaller dimensions, when the buffer is still above the ceiling
LeaveLoop ==
    /\ system = "Resize"
    /\ resize.step = "loop"
    /\ ~continues(resize.loop, resize.size, resize.quality)
    /\ IF resize.loop = "analyze" \/ resize.size <= settings(resize.loop).ceiling
        THEN resize' = [resize EXCEPT !.step = "returned"]
        ELSE \E size \in Sizes : resize' = [resize EXCEPT !.step = "last", !.size = size]
    /\ UNCHANGED offResize

\* convertHeicToBuffer returns the last buffer; resizeImageIfNeeded throws when
\* it is still above the target (l.84-86)
Finish ==
    /\ system = "Resize"
    /\ resize.step = "last"
    /\ resize' = [resize EXCEPT !.step =
            IF resize.loop = "vision" /\ resize.size > settings(resize.loop).ceiling
            THEN "threw" ELSE "returned"]
    /\ UNCHANGED offResize

\* sharp rejects: each of the three functions rethrows
EncodeFails ==
    /\ system = "Resize"
    /\ resize.step = "loop"
    /\ resize' = [resize EXCEPT !.step = "threw"]
    /\ UNCHANGED offResize

NextResize == FirstEncode \/ Iterate \/ LeaveLoop \/ Finish \/ EncodeFails

(***************************************************************************)
(*              The agent's watcher: MediaAnalystAgent (agent.ts)          *)
(***************************************************************************)
\* the files of test/photos with a supported extension
WatchedFiles == <<"a.jpg", "b.heic", "c.png">>

\* the calls of processPhotosInDirectory: the one startDataCollection awaits and
\* those of the timer's callback
ScanIds == {"initial", "tick1", "tick2", "tick3"}
\* a call stands nowhere (Null), at its readdir (<<0>>) or at its k-th file (<<k>>)
NoScan == [s \in ScanIds |-> Null]
Running == {s \in ScanIds : scans[s] # Null}

AgentIdle ==
    /\ startPc = "idle"
    /\ watchInterval = FALSE
    /\ scans = NoScan
    /\ cleanedUp = FALSE

offAgent == <<system, chainVars, simpleVars, tarsVars, pipeVars, docVars, photoVars,
              impactVars, resizeVars>>

\* startDataCollection, up to the await of mkdir (l.59-66)
StartDataCollection ==
    /\ system = "Agent"
    /\ startPc = "idle"
    /\ startPc' = "mkdir"
    /\ UNCHANGED <<watchInterval, scans, cleanedUp>>
    /\ UNCHANGED offAgent

\* mkdir resolves: the initial scan is called and runs up to its readdir (l.69, 90)
Mkdir ==
    /\ system = "Agent"
    /\ startPc = "mkdir"
    /\ startPc' = "scan"
    /\ scans' = [scans EXCEPT !["initial"] = <<0>>]
    /\ UNCHANGED <<watchInterval, cleanedUp>>
    /\ UNCHANGED offAgent

\* mkdir rejects: the catch of l.80-83 rethrows
MkdirFails ==
    /\ system = "Agent"
    /\ startPc = "mkdir"
    /\ startPc' = "threw"
    /\ UNCHANGED <<watchInterval, scans, cleanedUp>>
    /\ UNCHANGED offAgent

\* the end of a scan: the initial one lets startDataCollection go on to setInterval
EndScan(s, outcome) ==
    /\ scans' = [scans EXCEPT ![s] = Null]
    /\ startPc' = IF s = "initial" THEN outcome ELSE startPc

\* readdir resolves (l.90): the loop starts at the first file
ReadDir(s) ==
    /\ system = "Agent"
    /\ scans[s] = <<0>>
    /\ IF WatchedFiles = <<>>
        THEN EndScan(s, "install")
        ELSE scans' = [scans EXCEPT ![s] = <<1>>] /\ UNCHANGED startPc
    /\ UNCHANGED <<watchInterval, cleanedUp>>
    /\ UNCHANGED offAgent

\* readdir rejects (l.121-124): the scan throws; the timer's callback catches it
\* (l.75), startDataCollection rethrows it (l.80-83)
ReadDirFails(s) ==
    /\ system = "Agent"
    /\ scans[s] = <<0>>
    /\ EndScan(s, "threw")
    /\ UNCHANGED <<watchInterval, cleanedUp>>
    /\ UNCHANGED offAgent

\* readFile and action.handler for one file, its errors caught (l.97-118)
AnalyzeFile(s) ==
    /\ system = "Agent"
    /\ scans[s] # Null
    /\ scans[s][1] \in DOMAIN WatchedFiles
    /\ IF scans[s][1] < Len(WatchedFiles)
        THEN scans' = [scans EXCEPT ![s] = <<@[1] + 1>>] /\ UNCHANGED startPc
        ELSE EndScan(s, "install")
    /\ UNCHANGED <<watchInterval, cleanedUp>>
    /\ UNCHANGED offAgent

\* setInterval, l.72-78
InstallTimer ==
    /\ system = "Agent"
    /\ startPc = "install"
    /\ watchInterval' = TRUE
    /\ startPc' = "returned"
    /\ UNCHANGED <<scans, cleanedUp>>
    /\ UNCHANGED offAgent

\* five seconds have passed: the callback calls processPhotosInDirectory
TimerTick(s) ==
    /\ system = "Agent"
    /\ watchInterval
    /\ s # "initial"
    /\ scans[s] = Null
    /\ scans' = [scans EXCEPT ![s] = <<0>>]
    /\ UNCHANGED <<startPc, watchInterval, cleanedUp>>
    /\ UNCHANGED offAgent

\* cleanup, l.127-133, called once startDataCollection has been called
Cleanup ==
    /\ system = "Agent"
    /\ startPc # "idle"
    /\ ~cleanedUp
    /\ watchInterval' = FALSE
    /\ cleanedUp' = TRUE
    /\ UNCHANGED <<startPc, scans>>
    /\ UNCHANGED offAgent

NextAgent ==
    \/ StartDataCollection
    \/ Mkdir
    \/ MkdirFails
    \/ \E s \in ScanIds : ReadDir(s)
    \/ \E s \in ScanIds : ReadDirFails(s)
    \/ \E s \in ScanIds : AnalyzeFile(s)
    \/ InstallTimer
    \/ \E s \in ScanIds : TimerTick(s)
    \/ Cleanup

(***************************************************************************)
(*                    The chain: initial states and steps                  *)
(***************************************************************************)
PipeIdle ==
    /\ analyses = [e \in Evidence |-> 0]
    /\ pinned = <<>>
    /\ ledgerFile = Missing
    /\ pc = [r \in Runs |-> "idle"]
    /\ processedHashes = [r \in Runs |-> {}]
    /\ todo = [r \in Runs |-> <<>>]
    /\ loaded = [r \in Runs |-> <<>>]
    /\ created = [r \in Runs |-> NoResult]
    /\ results = [r \in Runs |-> <<>>]

SimpleIdle ==
    /\ members = {}
    /\ memberStakes = [a \in Accounts |-> 0]
    /\ proposals = <<>>

TarsIdle ==
    /\ verifiers = {}
    /\ agents = {}
    /\ stakedAmount = [a \in Accounts |-> 0]
    /\ balances = [a \in Accounts |-> 0]
    /\ causes = <<>>
    /\ transfers = 0

\* SimpleDAO after its constructor
InitSimple ==
    /\ system = "SimpleDAO"
    /\ now = 0
    /\ eth = SimpleEther
    /\ members = Preset
    /\ memberStakes = [a \in Accounts |-> 0]
    /\ proposals = <<>>
    /\ TarsIdle
    /\ PipeIdle
    /\ DocIdle
    /\ PhotoIdle
    /\ ImpactIdle
    /\ ResizeIdle
    /\ AgentIdle

\* TarsDAO after its constructor
InitTars ==
    /\ system = "TarsDAO"
    /\ now = 0
    /\ eth = TarsEther
    /\ verifiers = {}
    /\ agents = {}
    /\ stakedAmount = [a \in Accounts |-> 0]
    /\ balances = [a \in Accounts |-> IF a = DAO THEN INITIAL_SUPPLY ELSE 0]
    /\ causes = <<>>
    /\ transfers = 0
    /\ SimpleIdle
    /\ PipeIdle
    /\ DocIdle
    /\ PhotoIdle
    /\ ImpactIdle
    /\ ResizeIdle
    /\ AgentIdle

VotingPeriod == IF system = "TarsDAO" THEN TarsDAO_VOTING_PERIOD ELSE VOTING_PERIOD
CreateDays   == IF system = "TarsDAO" THEN TarsCreateDays ELSE SimpleCreateDays

\* the block timestamps: the days of creation, and the days from each deadline on
Days ==
    IF system = "Pipeline" THEN PipelineDays
    ELSE CreateDays \cup {c + VotingPeriod + k : c \in CreateDays, k \in 0..MaxOvertime}

\* a block with a later timestamp
Tick ==
    /\ \E d \in Days : d > now /\ now' = d
    /\ UNCHANGED <<system, docVars, photoVars, impactVars, resizeVars, agentVars, eth, simpleVars, tarsVars, pipeVars>>

JoinDAO ==
    /\ system = "SimpleDAO"
    /\ \E sender \in SimpleJoiners, value \in SimpleStakes : joinDAO(sender, value)
    /\ UNCHANGED <<system, docVars, photoVars, impactVars, resizeVars, agentVars, tarsVars, pipeVars>>

LeaveDAO ==
    /\ system = "SimpleDAO"
    /\ \E sender \in SimpleJoiners : leaveDAO(sender)
    /\ UNCHANGED <<system, docVars, photoVars, impactVars, resizeVars, agentVars, tarsVars, pipeVars>>

CreateProposal ==
    /\ system = "SimpleDAO"
    /\ now \in SimpleCreateDays
    /\ \E sender \in SimpleAuthors, description \in Descriptions :
            createProposal(sender, description)
    /\ UNCHANGED <<system, docVars, photoVars, impactVars, resizeVars, agentVars, tarsVars, pipeVars>>

Vote ==
    /\ system = "SimpleDAO"
    /\ \E sender \in SimpleCallers, proposalId \in DOMAIN proposals \cap SimpleBallots,
          support \in BOOLEAN :
            vote(sender, proposalId, support)
    /\ UNCHANGED <<system, docVars, photoVars, impactVars, resizeVars, agentVars, tarsVars, pipeVars>>

ExecuteProposal ==
    /\ system = "SimpleDAO"
    /\ \E sender \in SimpleCallers, proposalId \in DOMAIN proposals \cap SimpleBallots :
            executeProposal(sender, proposalId)
    /\ UNCHANGED <<system, docVars, photoVars, impactVars, resizeVars, agentVars, tarsVars, pipeVars>>

NextSimple ==
    \/ Tick
    \/ JoinDAO
    \/ LeaveDAO
    \/ CreateProposal
    \/ Vote
    \/ ExecuteProposal

SpecSimple == InitSimple /\ [][NextSimple]_vars

JoinAsVerifier ==
    /\ system = "TarsDAO"
    /\ \E sender \in VerifierJoiners, value \in TarsStakes : joinAsVerifier(sender, value)
    /\ UNCHANGED <<system, docVars, photoVars, impactVars, resizeVars, agentVars, simpleVars, pipeVars>>

JoinAsAgent ==
    /\ system = "TarsDAO"
    /\ \E sender \in AgentJoiners : joinAsAgent(sender)
    /\ UNCHANGED <<system, docVars, photoVars, impactVars, resizeVars, agentVars, simpleVars, pipeVars>>

CreateCause ==
    /\ system = "TarsDAO"
    /\ now \in TarsCreateDays
    /\ \E sender \in TarsCallers, imageHash \in ImageHashes, description \in Descriptions,
          request \in CauseRequests :
            createCause(sender, imageHash, description, request[1], request[2])
    /\ UNCHANGED <<system, docVars, photoVars, impactVars, resizeVars, agentVars, simpleVars, pipeVars>>

VerifyCause ==
    /\ system = "TarsDAO"
    /\ \E sender \in TarsCallers, causeId \in DOMAIN causes \cap TarsBallots :
            verifyCause(sender, causeId)
    /\ UNCHANGED <<system, docVars, photoVars, impactVars, resizeVars, agentVars, simpleVars, pipeVars>>

VoteCause ==
    /\ system = "TarsDAO"
    /\ \E sender \in TarsVoters, causeId \in DOMAIN causes \cap TarsBallots,
          support \in BOOLEAN :
            TarsDAO_vote(sender, causeId, support)
    /\ UNCHANGED <<system, docVars, photoVars, impactVars, resizeVars, agentVars, simpleVars, pipeVars>>

ExecuteCause ==
    /\ system = "TarsDAO"
    /\ \E sender \in TarsCallers, causeId \in DOMAIN causes \cap TarsBallots :
            executeCause(sender, causeId)
    /\ UNCHANGED <<system, docVars, photoVars, impactVars, resizeVars, agentVars, simpleVars, pipeVars>>

Receive ==
    /\ system = "TarsDAO"
    /\ \E sender \in Donors : receive(sender, Donation)
    /\ UNCHANGED <<system, docVars, photoVars, impactVars, resizeVars, agentVars, simpleVars, pipeVars>>

Transfer ==
    /\ system = "TarsDAO"
    /\ transfers < MaxTransfers
    /\ transfers' = transfers + 1
    /\ \E sender \in {"u1"}, to \in {"u2"} :
            \E value \in {balanceOf(sender)} \ {0} : transfer(sender, to, value)
    /\ UNCHANGED <<system, docVars, photoVars, impactVars, resizeVars, agentVars, simpleVars, pipeVars>>

NextTars ==
    \/ Tick
    \/ JoinAsVerifier
    \/ JoinAsAgent
    \/ CreateCause
    \/ VerifyCause
    \/ VoteCause
    \/ ExecuteCause
    \/ Receive
    \/ Transfer

SpecTars == InitTars /\ [][NextTars]_vars

(***************************************************************************)
(* The publisher, with SimpleDAO on the chain and the wallet a member of it *)
(***************************************************************************)
InitPipeline ==
    /\ system = "Pipeline"
    /\ now = 0
    /\ eth = [a \in Accounts |-> 0]
    /\ members = Preset
    /\ memberStakes = [a \in Accounts |-> 0]
    /\ proposals = <<>>
    /\ TarsIdle
    /\ PipeIdle
    /\ DocIdle
    /\ PhotoIdle
    /\ ImpactIdle
    /\ ResizeIdle
    /\ AgentIdle

NextPipeline ==
    \/ Tick
    \/ \E e \in Evidence, v \in Versions : analyzePhoto(e, v)
    \/ \E r \in Runs : Start(r)
    \/ \E r \in Runs : Load(r)
    \/ \E r \in Runs : LoadReset(r)
    \/ \E r \in Runs : List(r)
    \/ \E r \in Runs : ListFails(r)
    \/ \E r \in Runs : Check(r)
    \/ \E r \in Runs : CheckReset(r)
    \/ \E r \in Runs : Fetch(r)
    \/ \E r \in Runs : FetchFails(r)
    \/ \E r \in Runs : ValidateFails(r)
    \/ \E r \in Runs : Submit(r)
    \/ \E r \in Runs : SubmitFails(r)
    \/ \E r \in Runs : SubmitLost(r)
    \/ \E r \in Runs : SaveLoad(r)
    \/ \E r \in Runs : SaveReset(r)
    \/ \E r \in Runs : SaveOpen(r)
    \/ \E r \in Runs : SaveWrite(r)
    \/ \E r \in Runs : SaveFails(r)

SpecPipeline == InitPipeline /\ [][NextPipeline]_vars

\* either contract
\* the ledger files a run may find: none, or one that holds a row of the
\* ProcessedCID type (status 'success' | 'failed') for a pinned document
LedgerRows ==
    {[cid |-> cid, proposalId |-> ProposalId(DescriptionOf(cid), 0, Wallet), status |-> st] :
        cid \in CIDs, st \in {"success", "failed"}}
LedgerFiles == {Missing} \cup {File(<<row>>) : row \in LedgerRows}

\* the publisher started on a ledger file that is already there
InitRestart ==
    /\ system = "Pipeline"
    /\ now = 0
    /\ eth = [a \in Accounts |-> 0]
    /\ members = Preset
    /\ memberStakes = [a \in Accounts |-> 0]
    /\ proposals = <<>>
    /\ TarsIdle
    /\ analyses = [e \in Evidence |-> 0]
    /\ pinned = <<>>
    /\ ledgerFile \in LedgerFiles
    /\ pc = [r \in Runs |-> "idle"]
    /\ processedHashes = [r \in Runs |-> {}]
    /\ todo = [r \in Runs |-> <<>>]
    /\ loaded = [r \in Runs |-> <<>>]
    /\ created = [r \in Runs |-> NoResult]
    /\ results = [r \in Runs |-> <<>>]
    /\ DocIdle
    /\ PhotoIdle
    /\ ImpactIdle
    /\ ResizeIdle
    /\ AgentIdle

SpecRestart == InitRestart /\ [][NextPipeline]_vars

InitDAO == InitSimple \/ InitTars
NextDAO == NextSimple \/ NextTars
SpecDAO == InitDAO /\ [][NextDAO]_vars

\* the description of one analysis document
InitDescription ==
    /\ system = "Description"
    /\ now = 0
    /\ eth = [a \in Accounts |-> 0]
    /\ SimpleIdle
    /\ TarsIdle
    /\ PipeIdle
    /\ ipfsData \in {<<d>> : d \in IPFSAnalyses}
    /\ proposalDescription = <<>>
    /\ parsedData = <<>>
    /\ PhotoIdle
    /\ ImpactIdle
    /\ ResizeIdle
    /\ AgentIdle

\* createProposal of the publisher formats the description it submits
FormatDescription ==
    /\ system = "Description"
    /\ proposalDescription = <<>>
    /\ proposalDescription' = descriptionTemplate(ipfsData[1])
    /\ UNCHANGED <<system, chainVars, simpleVars, tarsVars, pipeVars, photoVars, impactVars, resizeVars, agentVars, ipfsData,
                   parsedData>>

\* so does createProposalFromIPFS
FormatFromIPFS ==
    /\ system = "Description"
    /\ proposalDescription = <<>>
    /\ proposalDescription' = createProposalFromIPFS_description(ipfsData[1])
    /\ UNCHANGED <<system, chainVars, simpleVars, tarsVars, pipeVars, photoVars, impactVars, resizeVars, agentVars, ipfsData,
                   parsedData>>

\* fetchProposals of Voting.tsx parses the description it read from the contract
ParseDescription ==
    /\ system = "Description"
    /\ proposalDescription # <<>>
    /\ parsedData = <<>>
    /\ parsedData' = <<parseProposalDescription(proposalDescription)>>
    /\ UNCHANGED <<system, chainVars, simpleVars, tarsVars, pipeVars, photoVars, impactVars, resizeVars, agentVars, ipfsData,
                   proposalDescription>>

NextDescription ==
    \/ FormatDescription
    \/ FormatFromIPFS
    \/ ParseDescription

SpecDescription == InitDescription /\ [][NextDescription]_vars

\* the directory batch over one directory of photos
InitAnalyzer ==
    /\ system = "Analyzer"
    /\ now = 0
    /\ eth = [a \in Accounts |-> 0]
    /\ SimpleIdle
    /\ TarsIdle
    /\ PipeIdle
    /\ DocIdle
    /\ ImpactIdle
    /\ ResizeIdle
    /\ AgentIdle
    /\ photoFiles \in Directories
    /\ photoPc = At("idle", 0)
    /\ photo = NoPhoto
    /\ photoResults = <<>>
    /\ avsTasks = <<>>
    /\ ipfsPins = <<>>

SpecAnalyzer == InitAnalyzer /\ [][NextAnalyzer]_vars

\* the evaluator on the category scores its five calculate functions may give
CategoryScores == {0, 55, 60, 79, 80, 85, 100}
InitImpact ==
    /\ system = "Impact"
    /\ now = 0
    /\ eth = [a \in Accounts |-> 0]
    /\ SimpleIdle
    /\ TarsIdle
    /\ PipeIdle
    /\ DocIdle
    /\ PhotoIdle
    /\ categories \in [CategoryNames -> CategoryScores]
    /\ assessment = <<>>
    /\ ResizeIdle
    /\ AgentIdle

NextImpact == Evaluate

SpecImpact == InitImpact /\ [][NextImpact]_vars

InitResize ==
    /\ system = "Resize"
    /\ now = 0
    /\ eth = [a \in Accounts |-> 0]
    /\ SimpleIdle
    /\ TarsIdle
    /\ PipeIdle
    /\ DocIdle
    /\ PhotoIdle
    /\ ImpactIdle
    /\ AgentIdle
    /\ resize \in [loop : Loops, step : {"start"}, quality : {100}, size : Sizes]

SpecResize == InitResize /\ [][NextResize]_vars

\* every await of an encoding settles: the encoder answers or rejects
SpecResizeFair == SpecResize /\ WF_vars(NextResize)

InitAgent ==
    /\ system = "Agent"
    /\ now = 0
    /\ eth = [a \in Accounts |-> 0]
    /\ SimpleIdle
    /\ TarsIdle
    /\ PipeIdle
    /\ DocIdle
    /\ PhotoIdle
    /\ ImpactIdle
    /\ ResizeIdle
    /\ AgentIdle

SpecAgent == InitAgent /\ [][NextAgent]_vars

(***************************************************************************)
(*                         Properties: the publisher                       *)
(***************************************************************************)
ProposalsOfEvidence(e) ==
    {id \in DOMAIN proposals : EvidenceOf(proposals[id].description) = e}

\* the runs that are past the isAlreadyProcessed check of the loop, on cid
PastCheck(cid) ==
    {r \in Runs : /\ pc[r] \in {"checkReset", "fetch", "submit", "saveLoad", "saveReset",
                                "saveOpen", "saveWrite"}
                  /\ Head(todo[r]) = cid}

\* C1: whatever is done with one piece of evidence (analysed once or twice,
\* published by one run or by two, one after the other or at once), the chain
\* never holds two proposals for it.
C1_OneProposalPerEvidence ==
    \A e \in Evidence : Cardinality(ProposalsOfEvidence(e)) <= 1

\* C2: of the runs that meet the same unprocessed CID, one only is ever past the
\* isAlreadyProcessed check with it: check and record act as one atomic step.
C2_OnePastCheck ==
    \A cid \in CIDs : Cardinality(PastCheck(cid)) <= 1

\* C3: the ledger never holds two rows for one content hash (so never two rows
\* with status 'success' either).
C3_LedgerRowsUnique ==
    \A i, j \in 1..Len(ledgerFile.rows) :
        ledgerFile.rows[i].cid = ledgerFile.rows[j].cid => i = j

(***************************************************************************)
(*                      Properties: the two contracts                      *)
(***************************************************************************)
\* the step sets the executed flag of proposal (cause) id
ExecutesProposal(id) == ~proposals[id].executed /\ proposals'[id].executed
ExecutesCause(id)    == ~causes[id].executed /\ causes'[id].executed

\* the step leaves the tallies and the has-voted set of id alone
ProposalVotesUnchanged(id) ==
    /\ proposals'[id].forVotes = proposals[id].forVotes
    /\ proposals'[id].againstVotes = proposals[id].againstVotes
    /\ proposals'[id].hasVoted = proposals[id].hasVoted
CauseVotesUnchanged(id) ==
    /\ causes'[id].approvalCount = causes[id].approvalCount
    /\ causes'[id].disapprovalCount = causes[id].disapprovalCount
    /\ causes'[id].hasVoted = causes[id].hasVoted

\* C4, as claimed: no execution, in either contract, unless the votes for exceed
\* the votes against and the time is strictly after the deadline.
C4_ExecuteOnlyStrictlyAfterDeadline ==
    [][ /\ \A id \in DOMAIN proposals : ExecutesProposal(id) =>
                /\ proposals[id].forVotes > proposals[id].againstVotes
                /\ now > proposals[id].deadline
        /\ \A id \in DOMAIN causes : ExecutesCause(id) =>
                /\ causes[id].approvalCount > causes[id].disapprovalCount
                /\ now > causes[id].deadline ]_vars

\* C4, amended: executeProposal needs now > deadline, executeCause needs only
\* now >= deadline; both need more votes for than against.
C4_ExecuteOnlyWhenPassed ==
    [][ /\ \A id \in DOMAIN proposals : ExecutesProposal(id) =>
                /\ proposals[id].forVotes > proposals[id].againstVotes
                /\ now > proposals[id].deadline
        /\ \A id \in DOMAIN causes : ExecutesCause(id) =>
                /\ causes[id].approvalCount > causes[id].disapprovalCount
                /\ now >= causes[id].deadline ]_vars

\* a cause executed in the block whose timestamp is its deadline
C4_Witness ==
    \E id \in DOMAIN causes : causes[id].executed /\ now = causes[id].deadline

\* the step pays amount out of the contract's ether to account b
Pays(b, amount) ==
    /\ eth'[DAO] = eth[DAO] - amount
    /\ eth'[b] = eth[b] + amount

CausePassed(id) ==
    /\ ~causes[id].executed
    /\ now >= causes[id].deadline
    /\ causes[id].approvalCount > causes[id].disapprovalCount

\* C6, as claimed: executing a passed cause reverts with the insufficient-funds
\* message while the contract holds less than the requested amount, changing
\* nothing, and succeeds as soon as it holds that much.
C6_FundsDecideExecution ==
    /\ [](\A id \in DOMAIN causes : CausePassed(id) =>
            IF eth[DAO] < causes[id].requestedAmount
            THEN executeCause_Revert(id) = "Insufficient DAO balance"
            ELSE executeCause_Revert(id) = "ok")
    /\ [][\A id \in DOMAIN causes : ExecutesCause(id) => executeCause_Revert(id) = "ok"]_vars

\* C6, amended: ... and succeeds as soon as it holds that much, if the
\* beneficiary accepts the payment; if not, it reverts with "Transfer failed".
C6_FundsAndBeneficiaryDecideExecution ==
    /\ [](\A id \in DOMAIN causes : CausePassed(id) =>
            IF eth[DAO] < causes[id].requestedAmount
            THEN executeCause_Revert(id) = "Insufficient DAO balance"
            ELSE IF AcceptsEther(causes[id].beneficiary)
            THEN executeCause_Revert(id) = "ok"
            ELSE executeCause_Revert(id) = "Transfer failed")
    /\ [][\A id \in DOMAIN causes : ExecutesCause(id) => executeCause_Revert(id) = "ok"]_vars

\* a passed cause that asks for more than the contract holds
C6_Witness ==
    \E id \in DOMAIN causes : CausePassed(id) /\ eth[DAO] < causes[id].requestedAmount

\* C7: no address is counted twice on a proposal: a step that moves a tally adds
\* exactly one address to the has-voted set, an address that was not in it; and in
\* SimpleDAO the two tallies add up to the number of addresses that have voted.
C7_OneVotePerMember ==
    /\ [](\A id \in DOMAIN proposals :
            proposals[id].forVotes + proposals[id].againstVotes
                = Cardinality(proposals[id].hasVoted))
    /\ [][ /\ \A id \in DOMAIN proposals : ~ProposalVotesUnchanged(id) =>
                \E a \in Accounts \ proposals[id].hasVoted :
                    proposals'[id].hasVoted = proposals[id].hasVoted \cup {a}
           /\ \A id \in DOMAIN causes : ~CauseVotesUnchanged(id) =>
                \E a \in Accounts \ causes[id].hasVoted :
                    causes'[id].hasVoted = causes[id].hasVoted \cup {a} ]_vars

\* a member who has voted on a proposal that is still open: a second vote of this
\* member is refused
C7_Witness ==
    \E id \in DOMAIN proposals : \E a \in proposals[id].hasVoted \cap members :
        /\ now <= proposals[id].deadline
        /\ vote_Revert(a, id, TRUE) = "Already voted"
        /\ Cardinality(proposals[id].hasVoted) >= 2

\* C8, as claimed: from the deadline on (now >= deadline) no vote is accepted, in
\* either contract.
C8_NoVoteFromDeadlineOn ==
    [][ /\ \A id \in DOMAIN proposals :
                now >= proposals[id].deadline => ProposalVotesUnchanged(id)
        /\ \A id \in DOMAIN causes :
                now >= causes[id].deadline => CauseVotesUnchanged(id) ]_vars

\* C8, amended: TarsDAO accepts no vote from the deadline on; SimpleDAO accepts
\* none after the deadline, and still accepts one at the deadline itself.
C8_NoVoteAfterDeadline ==
    [][ /\ \A id \in DOMAIN proposals :
                now > proposals[id].deadline => ProposalVotesUnchanged(id)
        /\ \A id \in DOMAIN causes :
                now >= causes[id].deadline => CauseVotesUnchanged(id) ]_vars

\* a verified cause at its deadline, and somebody entitled who has not voted on it
C8_Witness ==
    \E id \in DOMAIN causes : \E a \in (verifiers \cup agents) \ causes[id].hasVoted :
        /\ now >= causes[id].deadline
        /\ causes[id].verificationCount >= VERIFICATION_THRESHOLD
        /\ TarsDAO_vote_Revert(a, id, TRUE) = "Voting period ended"

\* the step is a vote of weight w by address a on the tallies (f, g before, f2, g2 after)
CountsVote(f, g, f2, g2, w) ==
    \/ f2 = f + w /\ g2 = g
    \/ f2 = f /\ g2 = g + w

\* C9, as claimed: a vote moves the chosen tally by the voter's governance-token
\* balance, in either contract.
C9_VoteWeighsBalance ==
    [][ /\ \A id \in DOMAIN proposals : \A a \in Accounts :
                (a \notin proposals[id].hasVoted /\ a \in proposals'[id].hasVoted) =>
                    CountsVote(proposals[id].forVotes, proposals[id].againstVotes,
                               proposals'[id].forVotes, proposals'[id].againstVotes,
                               balanceOf(a))
        /\ \A id \in DOMAIN causes : \A a \in Accounts :
                (a \notin causes[id].hasVoted /\ a \in causes'[id].hasVoted) =>
                    CountsVote(causes[id].approvalCount, causes[id].disapprovalCount,
                               causes'[id].approvalCount, causes'[id].disapprovalCount,
                               balanceOf(a)) ]_vars

\* C9, amended: in TarsDAO a vote moves the chosen tally by the voter's token
\* balance at that time and leaves the other tally alone; in SimpleDAO, which has
\* no token, it moves the chosen tally by 1.
C9_VoteWeight ==
    [][ /\ \A id \in DOMAIN proposals : \A a \in Accounts :
                (a \notin proposals[id].hasVoted /\ a \in proposals'[id].hasVoted) =>
                    CountsVote(proposals[id].forVotes, proposals[id].againstVotes,
                               proposals'[id].forVotes, proposals'[id].againstVotes, 1)
        /\ \A id \in DOMAIN causes : \A a \in Accounts :
                (a \notin causes[id].hasVoted /\ a \in causes'[id].hasVoted) =>
                    CountsVote(causes[id].approvalCount, causes[id].disapprovalCount,
                               causes'[id].approvalCount, causes'[id].disapprovalCount,
                               balanceOf(a)) ]_vars

\* votes of three different weights have been counted on one cause
C9_Witness ==
    \E id \in DOMAIN causes :
        /\ Cardinality(causes[id].hasVoted) = 3
        /\ Cardinality({balanceOf(a) : a \in causes[id].hasVoted}) = 3

\* the member has voted on a proposal that is still active
HasActiveVote(a) ==
    \E id \in DOMAIN proposals :
        /\ a \in proposals[id].hasVoted
        /\ ~proposals[id].executed
        /\ now <= proposals[id].deadline

\* C10: nobody leaves SimpleDAO while a vote of theirs stands on an active proposal.
C10_NoLeaveWithActiveVote ==
    [][\A a \in members : a \notin members' => ~HasActiveVote(a)]_vars

\* the step takes a out of the members
Leaves(a) == a \in members /\ a \notin members'

\* C11: a leaveDAO that succeeds pays the leaver the recorded stake, all of it,
\* out of the contract's ether, and clears stake and membership; nobody's
\* membership or stake is taken, and no ether leaves the contract, but by a call
\* that passes every require of leaveDAO; the call is refused to a non-member, to
\* a member without a stake and to one that does not accept the refund; the
\* contract always holds the stakes it has recorded.
C11_LeaveRefundsStake ==
    /\ [](system = "SimpleDAO" =>
            /\ eth[DAO] >= Sum(memberStakes, Accounts)
            /\ \A a \in Accounts :
                /\ a \notin members => leaveDAO_Revert(a) = "Not a member"
                /\ (a \in members /\ memberStakes[a] = 0) =>
                        leaveDAO_Revert(a) = "No stake to withdraw"
                /\ (a \in members /\ memberStakes[a] > 0 /\ ~AcceptsEther(a)) =>
                        leaveDAO_Revert(a) = "Transfer failed")
    /\ [][system = "SimpleDAO" =>
            /\ \A a \in Accounts : Leaves(a) =>
                /\ leaveDAO_Revert(a) = "ok"
                /\ memberStakes[a] > 0
                /\ Pays(a, memberStakes[a])
                /\ memberStakes'[a] = 0
                /\ \A b \in Accounts \ {a} :
                    /\ memberStakes'[b] = memberStakes[b]
                    /\ b \in members <=> b \in members'
                    /\ b # DAO => eth'[b] = eth[b]
            /\ \A a \in Accounts : memberStakes'[a] < memberStakes[a] => Leaves(a)
            /\ eth'[DAO] < eth[DAO] => \E a \in Accounts : Leaves(a) ]_vars

\* a member has voted, left and has all the ether back, while another member's
\* leaveDAO is refused because the refund would fail
C11_Witness ==
    /\ \E id \in DOMAIN proposals : \E a \in proposals[id].hasVoted :
            /\ a \notin members
            /\ memberStakes[a] = 0
            /\ eth[a] = SimpleEther[a]
    /\ \E b \in members : leaveDAO_Revert(b) = "Transfer failed"

\* the rows the ledger holds for cid
RowsOf(cid) == {i \in 1..Len(ledgerFile.rows) : ledgerFile.rows[i].cid = cid}

\* the loop of run r has passed cid by as already processed (lines 274-281)
Skipped(r, cid) ==
    \E i \in 1..Len(results[r]) : results[r][i] = Outcome(cid, "duplicate")

LedgerRowsAreProposals ==
    \A i \in 1..Len(ledgerFile.rows) :
        /\ ledgerFile.rows[i].status = "success"
        /\ ledgerFile.rows[i].proposalId \in DOMAIN proposals
        /\ proposals[ledgerFile.rows[i].proposalId].description
                = DescriptionOf(ledgerFile.rows[i].cid)

\* the account holds the role that createCause asks for
Authorized(a) == hasRole("VERIFIER_ROLE", a) \/ hasRole("AGENT_ROLE", a)

\* C13: createProposal is refused to every account that is not a member, and
\* createCause to every account that is neither verifier nor agent; a proposal
\* that appears was sent by a member, a cause that appears by somebody authorized.
C13_OnlyMembersCreate ==
    /\ [](/\ \A a \in Accounts \ members : \A d \in Descriptions :
                createProposal_Revert(a, d) = "Not a member"
          /\ \A a \in Accounts : ~Authorized(a) =>
                \A h \in ImageHashes, d \in Descriptions, request \in CauseRequests :
                    createCause_Revert(a, h, d, request[1], request[2]) = "Not authorized")
    /\ [][ /\ \A id \in DOMAIN proposals' \ DOMAIN proposals : id[3] \in members
           /\ DOMAIN causes' # DOMAIN causes => \E a \in Accounts : Authorized(a) ]_vars

\* a proposal of u1's is on the chain, and u1, a member no more, is refused another
C13_Witness ==
    \E id \in DOMAIN proposals :
        /\ id[3] \notin members
        /\ createProposal_Revert(id[3], proposals[id].description) = "Not a member"

\* C14, as claimed: the id is a function of content and creation time alone, so
\* no two proposals (causes) have the same content and the same creation time,
\* whoever sent them.
C14_OnePerContentAndTime ==
    /\ \A id1, id2 \in DOMAIN proposals :
            (/\ proposals[id1].description = proposals[id2].description
             /\ proposals[id1].deadline = proposals[id2].deadline) => id1 = id2
    /\ \A id1, id2 \in DOMAIN causes :
            (/\ causes[id1].imageHash = causes[id2].imageHash
             /\ causes[id1].deadline = causes[id2].deadline) => id1 = id2

\* C14, amended: a cause's id is a function of image hash and creation time, so a
\* second createCause of the same image in the same block is refused to every
\* caller, and causes of one image made at different times coexist; a proposal's
\* id is a function of description, creation time and sender, so only the same
\* sender is refused; a creation leaves the records that exist as they are.
C14_IdsOfContentTimeAndSender ==
    /\ [](/\ \A id1, id2 \in DOMAIN causes :
                (/\ causes[id1].imageHash = causes[id2].imageHash
                 /\ causes[id1].deadline = causes[id2].deadline) => id1 = id2
          /\ \A id \in DOMAIN causes :
                id = CauseId(causes[id].imageHash, causes[id].deadline - TarsDAO_VOTING_PERIOD)
          /\ \A id \in DOMAIN proposals :
                id = ProposalId(proposals[id].description,
                                proposals[id].deadline - VOTING_PERIOD, id[3])
          /\ \A a \in Accounts, h \in ImageHashes, d \in Descriptions, request \in CauseRequests :
                (Authorized(a) /\ causeExists(CauseId(h, now))) =>
                    createCause_Revert(a, h, d, request[1], request[2]) = "Cause already exists"
          /\ \A a \in members, d \in Descriptions :
                createProposal_Revert(a, d) =
                    IF exists(ProposalId(d, now, a)) THEN "Proposal already exists" ELSE "ok")
    /\ [][ /\ DOMAIN causes' # DOMAIN causes =>
                \A id \in DOMAIN causes : id \in DOMAIN causes' /\ causes'[id] = causes[id]
           /\ DOMAIN proposals' # DOMAIN proposals =>
                \A id \in DOMAIN proposals :
                    id \in DOMAIN proposals' /\ proposals'[id] = proposals[id] ]_vars

\* two causes of one image, made on different days, the first of them verified
\* and voted on before the second was made
C14_Witness ==
    \E id1, id2 \in DOMAIN causes :
        /\ causes[id1].imageHash = causes[id2].imageHash
        /\ causes[id1].deadline < causes[id2].deadline
        /\ causes[id1].approvalCount > 0
        /\ now < causes[id1].deadline

\* what a vote does to a proposal (p before, q after): one more address has
\* voted, the tallies may differ, nothing else does
VoteChange(p, q) ==
    /\ \E a \in Accounts \ p.hasVoted : q.hasVoted = p.hasVoted \cup {a}
    /\ q = [p EXCEPT !.hasVoted = q.hasVoted,
                     !.forVotes = q.forVotes, !.againstVotes = q.againstVotes]

\* the same of a cause
CauseVoteChange(p, q) ==
    /\ \E a \in Accounts \ p.hasVoted : q.hasVoted = p.hasVoted \cup {a}
    /\ q = [p EXCEPT !.hasVoted = q.hasVoted,
                     !.approvalCount = q.approvalCount,
                     !.disapprovalCount = q.disapprovalCount]

\* what an execution does to a record: executed becomes true
ExecuteChange(p, q) == ~p.executed /\ q = [p EXCEPT !.executed = TRUE]

\* what verifyCause does to a cause: one more verifier, one more verification
VerifyChange(p, q) ==
    /\ \E a \in Accounts \ p.hasVerified : q.hasVerified = p.hasVerified \cup {a}
    /\ q = [p EXCEPT !.hasVerified = q.hasVerified,
                     !.verificationCount = p.verificationCount + 1]

\* the record is kept, with its description and deadline, and if it is executed
\* it is kept as it is
Kept(old, new, id) ==
    /\ id \in DOMAIN new
    /\ new[id].description = old[id].description
    /\ new[id].deadline = old[id].deadline
    /\ old[id].executed => new[id] = old[id]

\* the proposals (causes) that the step creates are new-made: no votes, not
\* executed, the deadline one voting period from now
MadeNow ==
    /\ \A id \in DOMAIN proposals' \ DOMAIN proposals :
            /\ proposals'[id].deadline = now + VOTING_PERIOD
            /\ proposals'[id].forVotes = 0 /\ proposals'[id].againstVotes = 0
            /\ proposals'[id].hasVoted = {} /\ ~proposals'[id].executed
    /\ \A id \in DOMAIN causes' \ DOMAIN causes :
            /\ causes'[id].deadline = now + TarsDAO_VOTING_PERIOD
            /\ causes'[id].approvalCount = 0 /\ causes'[id].disapprovalCount = 0
            /\ causes'[id].verificationCount = 0
            /\ causes'[id].hasVoted = {} /\ causes'[id].hasVerified = {}
            /\ ~causes'[id].executed

\* C15, as claimed: a proposal (cause), once made, stays, with its description
\* and its deadline of creation time plus the voting period; a vote and an
\* execution are all that change it; once executed it never changes again.
C15_OnlyVoteAndExecuteMutate ==
    [][ /\ MadeNow
        /\ \A id \in DOMAIN proposals :
            /\ Kept(proposals, proposals', id)
            /\ proposals'[id] # proposals[id] =>
                    \/ VoteChange(proposals[id], proposals'[id])
                    \/ ExecuteChange(proposals[id], proposals'[id])
        /\ \A id \in DOMAIN causes :
            /\ Kept(causes, causes', id)
            /\ causes'[id] # causes[id] =>
                    \/ CauseVoteChange(causes[id], causes'[id])
                    \/ ExecuteChange(causes[id], causes'[id]) ]_vars

\* C15, amended: ... a vote, an execution and, in TarsDAO, a verification are
\* all that change it ...
C15_LifecycleMonotone ==
    [][ /\ MadeNow
        /\ \A id \in DOMAIN proposals :
            /\ Kept(proposals, proposals', id)
            /\ proposals'[id] # proposals[id] =>
                    \/ VoteChange(proposals[id], proposals'[id])
                    \/ ExecuteChange(proposals[id], proposals'[id])
        /\ \A id \in DOMAIN causes :
            /\ Kept(causes, causes', id)
            /\ causes'[id] # causes[id] =>
                    \/ CauseVoteChange(causes[id], causes'[id])
                    \/ ExecuteChange(causes[id], causes'[id])
                    \/ VerifyChange(causes[id], causes'[id]) ]_vars

\* an executed proposal, a member who has not voted on it, and a later proposal
C15_Witness ==
    \E id \in DOMAIN proposals :
        /\ proposals[id].executed
        /\ members \ proposals[id].hasVoted # {}
        /\ \E other \in DOMAIN proposals : proposals[other].deadline > proposals[id].deadline

\* C16: the status shown for a proposal is 'passed' exactly when the deadline
\* is behind and the votes for exceed the votes against, 'rejected' exactly when
\* the deadline is behind and they do not, 'active' exactly until the deadline is
\* behind; the contract stores no status.
C16_StatusIsDerived ==
    \A id \in DOMAIN proposals :
        /\ getProposal(id)[6]
        /\ status(id) = "passed" <=>
                (now > proposals[id].deadline
                    /\ proposals[id].forVotes > proposals[id].againstVotes)
        /\ status(id) = "rejected" <=>
                (now > proposals[id].deadline
                    /\ proposals[id].forVotes <= proposals[id].againstVotes)
        /\ status(id) = "active" <=> now <= proposals[id].deadline
        /\ "status" \notin DOMAIN proposals[id]

\* an executed proposal beside one that was rejected
C16_Witness ==
    \E id1, id2 \in DOMAIN proposals :
        /\ proposals[id1].executed /\ status(id1) = "passed"
        /\ ~proposals[id2].executed /\ status(id2) = "rejected"

\* the step moves amount tokens from the contract to account a
Grants(a, amount) ==
    /\ balances'[a] = balances[a] + amount
    /\ balances'[DAO] = balances[DAO] - amount
    /\ \A b \in Accounts \ {a, DAO} : balances'[b] = balances[b]

C18_VerificationThreshold ==
    /\ [](\A id \in DOMAIN causes :
            /\ causes[id].verificationCount = Cardinality(causes[id].hasVerified)
            /\ causes[id].hasVerified \subseteq verifiers
            /\ causes[id].verificationCount < VERIFICATION_THRESHOLD =>
                /\ causes[id].approvalCount = 0 /\ causes[id].disapprovalCount = 0
                /\ causes[id].hasVoted = {}
                /\ ~causes[id].executed
                /\ \A a \in Accounts : TarsDAO_vote_Revert(a, id, TRUE) # "ok"
                /\ executeCause_Revert(id) # "ok")
    /\ [][\A id \in DOMAIN causes :
            /\ causes'[id].verificationCount # causes[id].verificationCount =>
                /\ now < causes[id].deadline
                /\ VerifyChange(causes[id], causes'[id])
                /\ causes'[id].hasVerified \ causes[id].hasVerified \subseteq verifiers
            /\ ~CauseVotesUnchanged(id) =>
                causes[id].verificationCount >= VERIFICATION_THRESHOLD
            /\ ExecutesCause(id) =>
                causes[id].verificationCount >= VERIFICATION_THRESHOLD ]_vars

\* a cause that stayed one verification short to its deadline, with somebody who
\* could have voted and a treasury that could have paid
C18_Witness ==
    \E id \in DOMAIN causes :
        /\ causes[id].verificationCount = VERIFICATION_THRESHOLD - 1
        /\ now >= causes[id].deadline
        /\ agents # {}
        /\ eth[DAO] >= causes[id].requestedAmount
        /\ executeCause_Revert(id) = "Not enough verifications"

(***************************************************************************)
(*                  Properties: the proposal description                   *)
(***************************************************************************)
\* the tokens of a parsed description that Voting.tsx shows
ShownTexts(p) ==
    {p.location, p.description, p.estimatedImpact}
        \cup {p.recommendedActions[i] : i \in DOMAIN p.recommendedActions}
        \cup {p.news[i].title : i \in DOMAIN p.news}
        \cup {p.currentConditions[i].weather : i \in DOMAIN p.currentConditions}
        \cup {p.currentConditions[i].temperature : i \in DOMAIN p.currentConditions}
NoWeather(d) == ~Boolean(d.conditions) /\ ~Boolean(d.temperature)
NoNews(d) == ~Boolean(d.relevantArticles)
HasLabel(lines, label) == \E i \in DOMAIN lines : includes(lines[i], <<label>>)

\* C19: parsing the description that createProposal wrote gives back the
\* location, the score, the urgency and the list of recommended actions of the
\* document it was written from, and a field the document lacked comes back
\* absent, never as "N/A".
C19_RoundTrip ==
    parsedData # <<>> =>
        LET d == ipfsData[1]
            p == parsedData[1]
        IN  /\ p.location = location(d)
            /\ p.impactScore = d.score
            /\ "urgency" \in DOMAIN p
            /\ p.urgency = d.urgency
            /\ p.recommendedActions = d.recommendedActions
            /\ NoWeather(d) => p.currentConditions = <<>>
            /\ NoNews(d) => p.news = <<>>
            /\ \A text \in ShownTexts(p) : ~includes(text, <<NA>>)

\* C20: a description carries the weather line and the news section only when
\* the document has the data for them, and it never holds the token "N/A".
C20_AbsentSectionOmitted ==
    proposalDescription # <<>> =>
        LET d == ipfsData[1]
        IN  /\ NoWeather(d) => ~HasLabel(proposalDescription, "Weather:")
            /\ NoNews(d) => ~HasLabel(proposalDescription, "Recent Related News:")
            /\ ~HasLabel(proposalDescription, NA)

(***************************************************************************)
(*                     Properties: the media analyst                       *)
(***************************************************************************)
BatchOver == photoPc.step \in {"returned", "threw"}

\* C21: a batch over a directory of photos ends with one outcome for every
\* photo, in the order of the photos; the failure of one photo does not end it.
C21_OneOutcomePerItem ==
    BatchOver /\ photoFiles # <<>> =>
        /\ photoPc.step = "returned"
        /\ Len(photoResults) = Len(photoFiles)
        /\ \A i \in DOMAIN photoResults : photoResults[i].file = i

\* C22: a pinned document whose CID is in the ledger is reported by the run as
\* a duplicate, with the proposal of its ledger row, both where the run filters
\* the list and where it looks the CID up again; the lookup sends no
\* transaction and writes no row.
C22_DuplicateIsReportedSkip ==
    [][\A r \in Runs :
        /\ pc[r] = "list" /\ pc'[r] \in {"check", "done"} =>
            \A i \in DOMAIN pinned :
                pinned[i] \in processedHashes[r] =>
                    Contains(results'[r], Outcome(pinned[i], "duplicate"))
        /\ (/\ pc[r] = "check"
            /\ Readable(ledgerFile)
            /\ isAlreadyProcessed(Head(todo[r]))
            /\ results'[r] # results[r]) =>
                /\ results'[r] = Append(results[r], Outcome(Head(todo[r]), "duplicate"))
                /\ "proposalId" \in DOMAIN results'[r][Len(results'[r])]
                /\ proposals' = proposals
                /\ ledgerFile' = ledgerFile ]_vars


\* C23: a document that validateIPFSData rejects (no timestamp, no coordinates or
\* coordinates that are not numbers, no description, no score) ends its item as a
\* failure: the step writes no ledger row, sends no transaction, keeps no
\* proposal result in flight, and the run does not come back to the item.
C23_Rejected ==
    /\ \A data \in IPFSDocuments :
        validateIPFSData(data) # {} <=>
            \/ data.timestamp = Undefined
            \/ data.coordinates = Null
            \/ data.coordinates # Null /\ data.coordinates[1].lat # "number"
            \/ data.description = <<>>
            \/ data.score \in {Null, <<0>>}
    /\ \A r \in Runs :
        /\ pc[r] \in {"check", "checkReset", "fetch"} =>
                created[r] = NoResult /\ loaded[r] = <<>>
        /\ \A i \in DOMAIN results[r] :
            results[r][i].kind = "invalid" =>
                /\ ~Contains(todo[r], results[r][i].cid)
                /\ \A j \in RowsOf(results[r][i].cid) :
                        /\ ledgerFile.rows[j].status = "success"
                        /\ ledgerFile.rows[j].proposalId \in DOMAIN proposals

C23_InvalidIsRejectedFirst ==
    /\ []C23_Rejected
    /\ [][\A r \in Runs :
            (/\ pc[r] = "fetch"
             /\ results'[r] = Append(results[r], Outcome(Head(todo[r]), "invalid"))) =>
                /\ ledgerFile' = ledgerFile
                /\ proposals' = proposals
                /\ eth' = eth
                /\ created' = created ]_vars

C23_Witness ==
    \E r \in Runs : \E i \in DOMAIN results[r] :
        /\ results[r][i].kind = "invalid"
        /\ RowsOf(results[r][i].cid) = {}
        /\ \A id \in DOMAIN proposals :
                proposals[id].description # DescriptionOf(results[r][i].cid)
        /\ pc[r] = "done"

\* the record pinned for the k-th file of the batch, and that file: every file
\* before a throw is pinned, in order
Published(k) == ipfsPins[k].analysis
FileOf(k) == photoFiles[k]

\* C24: when a photo has coordinates, a lookup that fails leaves its own field of
\* the record absent and nothing else: the place is absent exactly when the
\* geocoder failed, the weather exactly when no weather lookup answered, the news
\* exactly when the news lookup failed; and no batch ends in a throw for it.
C24_LookupFailureIsAbsent ==
    /\ \A k \in DOMAIN ipfsPins : FileOf(k).gps =>
        /\ Published(k).location.address = Undefined <=> FileOf(k).geocode = "fails"
        /\ Published(k).weather = Null <=> getHistoricalWeather(FileOf(k)) = Null
        /\ Published(k).news = Null <=> FileOf(k).news = "fails"
    /\ photoPc.step = "threw" /\ photoFiles # <<>> =>
            ~FileOf(photoPc.i).readable \/ FileOf(photoPc.i).pin = "fails"

\* what does hold: a failed lookup stops neither the batch nor the other lookups
C24_LookupsAreIsolated ==
    /\ \A k \in DOMAIN ipfsPins : FileOf(k).gps =>
        /\ Published(k).weather = Null <=> getHistoricalWeather(FileOf(k)) = Null
        /\ Published(k).news = Null <=> FileOf(k).news = "fails"
        /\ FileOf(k).geocode = "fails" => Published(k).location.address = "Unknown"
    /\ photoPc.step = "threw" /\ photoFiles # <<>> =>
            ~FileOf(photoPc.i).readable \/ FileOf(photoPc.i).pin = "fails"

\* C25: after the lookups of a photo with coordinates, a historical lookup that
\* was denied (401, 403) leaves the current conditions, marked as current, and
\* any other failure of the historical lookup leaves the weather absent.
C25_FallbackOnAccessDeniedOnly ==
    photoPc.step = "pin" /\ ThisPhoto.gps =>
        /\ ThisPhoto.historical \in {"401", "403"} /\ ThisPhoto.current = "ok" =>
                /\ photo.weatherData = getCurrentWeather(ThisPhoto)
                /\ dataType(photo.weatherData) = "current"
        /\ ThisPhoto.historical \notin {"ok", "401", "403"} => photo.weatherData = Null

\* what does hold: every failure of the historical lookup falls back
C25_FallbackOnEveryFailure ==
    photoPc.step = "pin" /\ ThisPhoto.gps /\ ThisPhoto.historical # "ok" =>
        /\ photo.weatherData = getCurrentWeather(ThisPhoto)
        /\ photo.weatherData # Null => dataType(photo.weatherData) = "current"

\* C26: a photo whose attestation task could not be submitted is still pinned,
\* and its published verification section is not marked verified.
C26_FailedAttestationNotVerified ==
    /\ \A k \in DOMAIN ipfsPins :
        FileOf(k).avs # "ok" => ~Published(k).verification.isVerified
    /\ photoPc.step = "threw" /\ photoFiles # <<>> =>
            ~FileOf(photoPc.i).readable \/ FileOf(photoPc.i).pin = "fails"

\* C27: the record returned for a file whose attestation task was created holds
\* that task's identifier in its verification section.
C27_TaskIdRecorded ==
    \A k \in DOMAIN photoResults :
        photoResults[k].avsVerification.success =>
            photoResults[k].data.verification.taskId
                = <<photoResults[k].avsVerification.taskId>>

\* what does hold of the second half: no record holds a task identifier at all
C27_NoTaskIdAtAll ==
    \A k \in DOMAIN ipfsPins : Published(k).verification.taskId = Null

\* the attestation task of the k-th file, when the service created one: tasks are
\* created in the order of the files
TaskOf(k) == Cardinality({j \in 1..k : FileOf(j).avs = "ok"})

\* C28: the hash in the published record is the hash of the image bytes pinned
\* with it, and so is the hash of the file's attestation task.
C28_OneHashForOneImage ==
    \A k \in DOMAIN ipfsPins :
        /\ Published(k).hash = keccak256(ipfsPins[k].image)
        /\ FileOf(k).avs = "ok" => avsTasks[TaskOf(k)] = keccak256(ipfsPins[k].image)

\* what does hold: the record and the attestation task hold the same hash, that
\* of the bytes before analyzePhoto's resize; the pinned image is the resized one
C28_HashOfBytesBeforeResize ==
    \A k \in DOMAIN ipfsPins :
        /\ FileOf(k).avs = "ok" => avsTasks[TaskOf(k)] = Published(k).hash
        /\ ipfsPins[k].image = resizeForAnalysis(Published(k).hash[2])

\* five times the average of the five category scores
FiveTimesTotal ==
    categories["urgency"] + categories["scope"] + categories["sustainability"]
        + categories["feasibility"] + categories["communityBenefit"]

\* C29: the total is the average of the five category scores; the mechanism is
\* DAO iff the total is at least 80, HYBRID iff it is at least 60 and below 80,
\* TRADITIONAL otherwise; the target amount is baseAmount * total / 100.
C29_MechanismAndTarget ==
    assessment # <<>> =>
        /\ assessment[1].totalScore = FiveTimesTotal      \* both count fifths
        /\ assessment[1].mechanism = "DAO" <=> FiveTimesTotal >= 5 * 80
        /\ assessment[1].mechanism = "HYBRID" <=>
                FiveTimesTotal >= 5 * 60 /\ FiveTimesTotal < 5 * 80
        /\ assessment[1].mechanism = "TRADITIONAL" <=> FiveTimesTotal < 5 * 60
        /\ 5 * 100 * assessment[1].targetAmount = baseAmount * FiveTimesTotal

\* a total of 85 gives DAO and 0.85 * baseAmount
C29_Witness ==
    /\ assessment # <<>>
    /\ FiveTimesTotal = 5 * 85
    /\ assessment[1].mechanism = "DAO"
    /\ 100 * assessment[1].targetAmount = 85 * baseAmount

\* C30: no image handed to the image analysis or pinned is larger than the ceiling.
C30_NeverLargerThanCeiling ==
    /\ \A k \in DOMAIN ipfsPins : Size(ipfsPins[k].image) <= MAX_SIZE
    /\ photo.processedBuffer # Null => Size(photo.processedBuffer[1]) <= MAX_SIZE
    /\ photo.buffer # Null /\ ThisPhoto.heic => Size(photo.buffer[1]) <= MAX_SIZE

\* what does hold: the image analysis itself never gets more than its target
C30_VisionWithinTarget ==
    \A p \in Photos :
        LET buffer == [content |-> 1, raw |-> p.raw,
                       format |-> IF p.heic THEN "heic" ELSE "jpeg",
                       quality |-> 100, side |-> FullSide]
            sent == resizeImageIfNeeded(resizeForAnalysis(buffer))
        IN  sent # Null => Size(sent[1]) <= TARGET_SIZE

(***************************************************************************)
(*             Properties: the re-encoding loops and the watcher           *)
(***************************************************************************)
\* how many times the body of the loop has run
Iterations ==
    IF resize.step \in {"start", "idle"} \/ resize.quality = 100 THEN 0
    ELSE IF resize.loop = "vision" THEN (60 - resize.quality) \div 15
    ELSE (80 - resize.quality) \div 10

C31_Bounded ==
    /\ Iterations <= IF resize.loop = "vision" THEN 3 ELSE 5
    /\ resize.step # "start" /\ resize.quality # 100 =>
            resize.quality >= IF resize.loop = "vision" THEN 15 ELSE 30

\* C31: whatever sizes the encoder gives, every iteration of a loop lowers the
\* quality by the loop's step (15 in resizeImageIfNeeded, 10 in the other two),
\* the body runs at most 3 times in resizeImageIfNeeded and 5 times in the other
\* two, and the re-encoding ends, with a result or with an error.
C31_ReencodingTerminates ==
    /\ []C31_Bounded
    /\ [][resize.step = "loop" /\ resize'.step = "loop" =>
            resize'.quality = resize.quality - IF resize.loop = "vision" THEN 15 ELSE 10]_vars
    /\ <>(resize.step \in {"returned", "threw"})

\* resizeImageIfNeeded has run its loop to the floor and thrown
C31_Witness ==
    resize.loop = "vision" /\ resize.step = "threw" /\ resize.quality = 15

\* C38: once cleanup() has returned, no call of processPhotosInDirectory starts.
C38_NoScanAfterCleanup ==
    [][cleanedUp => \A s \in ScanIds : scans[s] = Null => scans'[s] = Null]_vars

\* what does hold: with no timer installed and startDataCollection over, no scan
\* starts
C38_NoTimerNoScan ==
    [][~watchInterval /\ startPc \in {"returned", "threw"} =>
            \A s \in ScanIds : scans[s] = Null => scans'[s] = Null]_vars

\* C39: at most one call of processPhotosInDirectory is in progress.
C39_OneScanAtATime == Cardinality(Running) <= 1

(***************************************************************************)
(*                   Properties: the ledger and the chain                  *)
(***************************************************************************)
\* the proposals on the chain that were made from cid
ProposalsOfCid(cid) ==
    {id \in DOMAIN proposals : proposals[id].description = DescriptionOf(cid)}

\* the runs that hold a confirmed proposal for cid and have yet to record it
Recording(cid) ==
    {r \in Runs : /\ pc[r] \in {"saveLoad", "saveReset", "saveOpen", "saveWrite"}
                  /\ Head(todo[r]) = cid}

\* C32: a CID whose proposal is on the chain has a ledger row, unless the run that
\* made the proposal is still on its way to write it; and no CID has two proposals.
C32_ConfirmedIsRecorded ==
    \A cid \in CIDs :
        /\ ProposalsOfCid(cid) # {} /\ Recording(cid) = {} /\ Readable(ledgerFile) =>
                isAlreadyProcessed(cid)
        /\ Cardinality(ProposalsOfCid(cid)) <= 1

\* C33: a row that saveProcessedCID wrote (its run reports the CID as a success)
\* is in the ledger file whenever the file can be read.
C33_LedgerOnlyGrows ==
    Readable(ledgerFile) =>
        \A r \in Runs : \A i \in DOMAIN results[r] :
            results[r][i].kind = "success" => isAlreadyProcessed(results[r][i].cid)

\* C34: a member's executeProposal succeeds on every unexecuted proposal that
\* Voting.tsx shows as 'passed' (the condition of its Execute button).
C34_PassedIsExecutable ==
    \A id \in DOMAIN proposals : \A a \in members :
        status(id) = "passed" /\ ~getProposal(id)[5] =>
            executeProposal_Revert(a, id) = "ok"

\* what does hold: the only refusal of an offered execution is the quorum
C34_PassedIsExecutableWithQuorum ==
    \A id \in DOMAIN proposals : \A a \in members :
        status(id) = "passed" /\ ~getProposal(id)[5] =>
            executeProposal_Revert(a, id) \in {"ok", "Quorum not reached"}

\* the deadline require of the execution lets the call through
PastProposalDeadline(id) ==
    \A a \in members : executeProposal_Revert(a, id) # "Voting still in progress"
PastCauseDeadline(id) == executeCause_Revert(id) # "Voting still ongoing"

C35_Disjoint ==
    /\ \A id \in DOMAIN proposals :
        members # {} /\ ~proposals[id].executed /\ PastProposalDeadline(id) =>
            \A a \in Accounts : \A support \in BOOLEAN : vote_Revert(a, id, support) # "ok"
    /\ \A id \in DOMAIN causes :
        ~causes[id].executed /\ PastCauseDeadline(id) =>
            \A a \in Accounts :
                /\ verifyCause_Revert(a, id) # "ok"
                /\ \A support \in BOOLEAN : TarsDAO_vote_Revert(a, id, support) # "ok"

\* C35: in no state can both a vote (or a verification) and an execution of the
\* same proposal pass their deadline checks, and once the clock allows the
\* execution the tallies and the verification count stay as they are.
C35_VotingEndsBeforeExecution ==
    /\ []C35_Disjoint
    /\ [][ /\ now' >= now
           /\ \A id \in DOMAIN proposals :
                now > proposals[id].deadline => ProposalVotesUnchanged(id)
           /\ \A id \in DOMAIN causes :
                now >= causes[id].deadline =>
                    /\ CauseVotesUnchanged(id)
                    /\ causes'[id].verificationCount = causes[id].verificationCount
                    /\ causes'[id].hasVerified = causes[id].hasVerified ]_vars

\* a cause that can be executed at its deadline, with votes on both sides, while
\* somebody entitled who has not voted is refused
C35_Witness ==
    \E id \in DOMAIN causes : \E a \in (verifiers \cup agents) \ causes[id].hasVoted :
        /\ now = causes[id].deadline
        /\ executeCause_Revert(id) = "ok"
        /\ causes[id].disapprovalCount > 0
        /\ TarsDAO_vote_Revert(a, id, TRUE) = "Voting period ended"

\* the governance tokens held outside the contract
TokensOutside == Sum(balances, Accounts \ {DAO})

\* C36: the weight counted on a cause never exceeds the tokens held outside the
\* contract.
C36_NoTokenCountedTwice ==
    \A id \in DOMAIN causes :
        causes[id].approvalCount + causes[id].disapprovalCount <= TokensOutside

\* C37: the contract holds at least the ether of all recorded stakes, so it can
\* pay every refund leaveDAO owes.
C37_StakesAreCovered ==
    /\ eth[DAO] >= Sum(memberStakes, Accounts)
    /\ \A a \in Accounts : memberStakes[a] > 0 => a \in members
    /\ \A a \in members : eth[DAO] >= memberStakes[a]

\* two members hold different stakes, and somebody who voted has left with a refund
C37_Witness ==
    /\ \E a, b \in members : memberStakes[a] > memberStakes[b] /\ memberStakes[b] > 0
    /\ \E id \in DOMAIN proposals : \E c \in proposals[id].hasVoted :
            c \notin members /\ eth[c] = SimpleEther[c]
    /\ eth[DAO] = Sum(memberStakes, Accounts)
====
